---- MODULE Spec2Model ----
(***************************************************************************)
(* Model of rafka's byte_utils (clients/src/common/utils/byte_utils.rs):   *)
(* the unsigned varint codec (32 and 64 bit), the zig-zag signed codec on  *)
(* top of it and the fixed-width big-endian accessors, operating on a byte *)
(* sink/source with a read cursor; of the i64-widened accessors of         *)
(* clients/src/common/utils/mod.rs; of ConfigDefBuilder and ConfigDef      *)
(* (clients/src/common/config/config_def.rs); and of the unit converters   *)
(* of server-common/src/server/config/config_synonym.rs.                   *)
(*                                                                         *)
(* Machine integers (u8/u32/i32/u64/i64) are modelled as bit patterns: the *)
(* set of the positions of their 1-bits (bit 0 is the least significant).  *)
(* A signed integer is its two's-complement pattern.  A byte on the wire   *)
(* is a number 0..255.                                                     *)
(***************************************************************************)
EXTENDS Integers, Sequences, FiniteSets, TLC

VARIABLES
    buf,    \* the bytes held by the sink/source (Vec<u8> under a Cursor)
    pos,    \* the source's read position (number of bytes consumed)
    log,    \* the fields the writer wrote so far, in order: [op, value, start, len];
            \* the calls made so far, in the retry and builder specifications
    rd,     \* the number of fields of log the reader has read back
    res,    \* outcome of the last call: [op, tag, val] and what the call adds
    tasks,  \* two codec calls in progress, each on a source or sink of its own
    builder, \* a ConfigDefBuilder: [config_keys, current_key]
    text    \* the String handed to a unit converter

vars == <<buf, pos, log, rd, res, tasks, builder, text>>

\* the state no operation of byte_utils reads or writes
elsewhere == <<tasks, builder, text>>

----------------------------------------------------------------------------
(* Bounds of the model *)

\* most fields written to one sink in the stream specification
MaxWrites == 4
\* longest byte source fed to a decoder in the decoder specification
MaxSrcLen == 11
\* the integers -MaxSmall..MaxSmall are zig-zagged besides the boundary values
MaxSmall == 4
\* longest byte slice handed to the fixed-width accessors
MaxBufLen == 8
\* largest capacity of the sink the varint encoders write to
MaxSinkLen == 6
\* most bytes that arrive at the source in the retry specification
MaxArrived == 4
\* most decoder calls on one source in the retry specification
MaxCalls == 2
\* most new() and setter calls made on one builder
MaxBuilderCalls == 5
\* longest converter input drawn from the whole alphabet
MaxTextLen == 3

----------------------------------------------------------------------------
(* Program constants *)

\* bit width of u8
W8 == 8
\* bit width of u32 / i32
W32 == 32
\* bit width of u64 / i64
W64 == 64
\* iterations of the 32-bit decoding loop: for i in 0..5
MaxVarintBytes32 == 5
\* iterations of the 64-bit decoding loop: for i in 0..10
MaxVarintBytes64 == 10
\* bytes of a fixed-width integer: [0; 4]
IntBytes == 4

----------------------------------------------------------------------------
(* Rust's integer operators on bit patterns *)

\* the pattern of a number 0 <= n < 2^31
ToBits(n) == {i \in 0..30 : (n \div (2^i)) % 2 = 1}

\* the number of a pattern with no bit above 30
RECURSIVE ToNat(_)
ToNat(bits) ==
    IF bits = {} THEN 0
    ELSE LET i == CHOOSE x \in bits : TRUE
         IN  2^i + ToNat(bits \ {i})

\* the i32 pattern (two's complement) of a number -2^31 <= n < 2^31
I32(n) == IF n >= 0 THEN ToBits(n) ELSE (0..(W32 - 1)) \ ToBits(-(n + 1))

\* a & b
BitAnd(a, b) == a \cap b
\* a | b
BitOr(a, b) == a \cup b
\* a ^ b
BitXor(a, b) == (a \ b) \cup (b \ a)
\* !a at width w
BitNot(a, w) == (0..(w - 1)) \ a
\* a << k at width w: the bits shifted past the width are dropped
Shl(a, k, w) == {i + k : i \in {j \in a : j + k < w}}
\* a >> k, unsigned (logical)
Shr(a, k) == {i - k : i \in {j \in a : j >= k}}
\* a >> k, signed at width w (arithmetic: the sign bit is propagated)
Sar(a, k, w) == Shr(a, k) \cup (IF (w - 1) \in a THEN (w - k)..(w - 1) ELSE {})
\* -a at width w (two's complement)
Neg(a, w) ==
    IF a = {} THEN {}
    ELSE LET l == CHOOSE x \in a : \A y \in a : x <= y
         IN  {l} \cup {i \in (l + 1)..(w - 1) : i \notin a}
\* a as u8 / as u32: narrowing keeps the low w bits
Trunc(a, w) == {i \in a : i < w}
\* (1 << n) - 1
Mask(n) == 0..(n - 1)
\* the wire byte of a pattern: `x as u8`
AsByte(a) == ToNat(Trunc(a, W8))

----------------------------------------------------------------------------
(* The byte source: io::Read on a Cursor / a byte slice *)

\* the outcome of a read operation: tag is "Ok", "Io", "VarintTooLong",
\* "UnterminatedVarint" or "panic"; val the value of an Ok; pos the source
\* position the operation leaves
Outcome(tag, val, p) == [tag |-> tag, val |-> val, pos |-> p]

\* mutant of read_exact: a short source leaves the zeroed buffer and reports
\* success (reader.read with its count ignored)
read_exact_zero_filled(src, p, n) ==
    IF p + n <= Len(src)
    THEN [ok |-> TRUE, bytes |-> SubSeq(src, p + 1, p + n), pos |-> p + n]
    ELSE [ok |-> TRUE, bytes |-> [k \in 1..n |-> 0], pos |-> Len(src)]

\* mutant of read_exact: the bytes are copied without advancing the position
read_exact_no_advance(src, p, n) ==
    IF p + n <= Len(src)
    THEN [ok |-> TRUE, bytes |-> SubSeq(src, p + 1, p + n), pos |-> p]
    ELSE [ok |-> FALSE, bytes |-> <<>>, pos |-> p]

\* mutant of read_exact: the reader takes one byte more than it hands over
read_exact_read_ahead(src, p, n) ==
    IF p + n <= Len(src)
    THEN [ok |-> TRUE, bytes |-> SubSeq(src, p + 1, p + n), pos |-> p + n + 1]
    ELSE [ok |-> FALSE, bytes |-> <<>>, pos |-> p]

\* reader.read_exact(&mut buffer) with a buffer of n bytes, at position p:
\* the n bytes and the advanced position, or UnexpectedEof when fewer remain
read_exact(src, p, n) ==
    IF p + n <= Len(src)
    THEN [ok |-> TRUE, bytes |-> SubSeq(src, p + 1, p + n), pos |-> p + n]
    ELSE [ok |-> FALSE, bytes |-> <<>>, pos |-> p]

----------------------------------------------------------------------------
(* VarintCodec, unsigned *)

\* byte & 0x80 != 0: the continuation bit of a wire byte
continuation(byte) == BitAnd(ToBits(byte), ToBits(128)) # {}

\* mutant of too_long: the check is made one iteration late
too_long_off_by_one(i, byte, last) == i = last + 1 /\ continuation(byte)

\* mutant of too_long: a zero byte after the first is rejected as padding
too_long_strict(i, byte, last) ==
    \/ i = last /\ continuation(byte)
    \/ i > 0 /\ byte = 0

\* mutant of too_long: the length check is missing
too_long_never(i, byte, last) == FALSE

\* if i == 4 && (byte & 0x80) != 0 (32 bit), if i == 9 && ... (64 bit):
\* last is the index of the last byte the domain allows
too_long(i, byte, last) == i = last /\ continuation(byte)

\* mutant of accumulate: the continuation bit is not masked off
accumulate_unmasked(result, byte, shift, w) ==
    BitOr(result, Shl(ToBits(byte), shift, w))

\* result |= ((byte & 0x7f) as u32) << shift (w = 32), as u64 (w = 64)
accumulate(result, byte, shift, w) ==
    BitOr(result, Shl(BitAnd(ToBits(byte), ToBits(127)), shift, w))

\* the loop of read_unsigned_varint, from iteration i
RECURSIVE read_unsigned_varint_loop(_, _, _, _, _)
read_unsigned_varint_loop(src, p, i, result, shift) ==
    IF i >= MaxVarintBytes32
    THEN Outcome("UnterminatedVarint", {}, p)
    ELSE LET r == read_exact(src, p, 1) IN
         IF ~r.ok
         THEN Outcome("Io", {}, r.pos)
         ELSE LET byte == r.bytes[1] IN
              IF too_long(i, byte, MaxVarintBytes32 - 1)
              THEN Outcome("VarintTooLong", {}, r.pos)
              ELSE LET result1 == accumulate(result, byte, shift, W32) IN
                   IF ~continuation(byte)
                   THEN Outcome("Ok", result1, r.pos)
                   ELSE read_unsigned_varint_loop(src, r.pos, i + 1, result1, shift + 7)

\* mutant of read_unsigned_varint: a source that runs out is rewound to where
\* the call began
read_unsigned_varint_rewinding(src, p) ==
    LET o == read_unsigned_varint_loop(src, p, 0, {}, 0)
    IN  IF o.tag = "Io" THEN Outcome("Io", {}, p) ELSE o

read_unsigned_varint(src, p) == read_unsigned_varint_loop(src, p, 0, {}, 0)

\* the loop of read_unsigned_varint64, from iteration i
RECURSIVE read_unsigned_varint64_loop(_, _, _, _, _)
read_unsigned_varint64_loop(src, p, i, result, shift) ==
    IF i >= MaxVarintBytes64
    THEN Outcome("UnterminatedVarint", {}, p)
    ELSE LET r == read_exact(src, p, 1) IN
         IF ~r.ok
         THEN Outcome("Io", {}, r.pos)
         ELSE LET byte == r.bytes[1] IN
              IF too_long(i, byte, MaxVarintBytes64 - 1)
              THEN Outcome("VarintTooLong", {}, r.pos)
              ELSE LET result1 == accumulate(result, byte, shift, W64) IN
                   IF ~continuation(byte)
                   THEN Outcome("Ok", result1, r.pos)
                   ELSE read_unsigned_varint64_loop(src, r.pos, i + 1, result1, shift + 7)

read_unsigned_varint64(src, p) == read_unsigned_varint64_loop(src, p, 0, {}, 0)

\* mutant of no_bits_above: the mask is one bit too wide
no_bits_above_wide(value, n) == BitAnd(value, BitNot(Mask(n + 1), W32)) = {}

\* (value & !((1 << n) - 1)) == 0
no_bits_above(value, n) == BitAnd(value, BitNot(Mask(n), W32)) = {}

\* ((value >> s) & 0xFF) as u8
last_group(value, s) == AsByte(BitAnd(Shr(value, s), ToBits(255)))

\* mutant of cont_group: the continuation flag is not set
cont_group_unflagged(value, s) == AsByte(BitAnd(Shr(value, s), ToBits(127)))

\* ((value >> s) & 0x7F | 0x80) as u8
cont_group(value, s) == AsByte(BitOr(BitAnd(Shr(value, s), ToBits(127)), ToBits(128)))

\* the bytes write_unsigned_varint hands to writer.write_all, in order
write_unsigned_varint(value) ==
    IF no_bits_above(value, 7)
    THEN << AsByte(value) >>
    ELSE << ToNat(BitOr(Trunc(BitAnd(value, ToBits(127)), W8), ToBits(128))) >> \o
         IF no_bits_above(value, 14)
         THEN << last_group(value, 7) >>
         ELSE << cont_group(value, 7) >> \o
              IF no_bits_above(value, 21)
              THEN << last_group(value, 14) >>
              ELSE << cont_group(value, 14) >> \o
                   IF no_bits_above(value, 28)
                   THEN << last_group(value, 21) >>
                   ELSE << cont_group(value, 21), last_group(value, 28) >>

\* mutant of more_groups: while value > 0xFF
more_groups_late(value) == \E b \in value : b > 7

\* while value >= 0x80
more_groups(value) == \E b \in value : b >= 7

\* the bytes write_unsigned_varint64 hands to writer.write_all, in order
RECURSIVE write_unsigned_varint64(_)
write_unsigned_varint64(value) ==
    IF more_groups(value)
    THEN LET byte_to_write ==
                 ToNat(BitOr(BitAnd(Trunc(value, W8), ToBits(127)), ToBits(128)))
         IN  << byte_to_write >> \o write_unsigned_varint64(Shr(value, 7))
    ELSE << AsByte(value) >>

----------------------------------------------------------------------------
(* ZigZagCodec, signed *)

\* mutant of zigzag_encode: a logical shift in place of the arithmetic one
zigzag_encode_logical(value) == BitXor(Shl(value, 1, W32), Shr(value, 31))

\* mutant of zigzag_encode: the sign mask is not folded in
zigzag_encode_shift_only(value) == Shl(value, 1, W32)

\* ((value << 1) ^ (value >> 31)) as u32
zigzag_encode(value) == BitXor(Shl(value, 1, W32), Sar(value, 31, W32))

\* mutant of zigzag_decode: the low bit is not negated
zigzag_decode_no_neg(unsigned_value) ==
    BitXor(Shr(unsigned_value, 1), BitAnd(unsigned_value, ToBits(1)))

\* (unsigned_value >> 1) as i32 ^ (-((unsigned_value & 1) as i32))
zigzag_decode(unsigned_value) ==
    BitXor(Shr(unsigned_value, 1), Neg(BitAnd(unsigned_value, ToBits(1)), W32))

\* mutant of zigzag_decode64: the low bit is negated at 32 bits
zigzag_decode64_narrow(unsigned_value) ==
    BitXor(Shr(unsigned_value, 1), Neg(BitAnd(unsigned_value, ToBits(1)), W32))

\* (unsigned_value >> 1) as i64 ^ (-((unsigned_value & 1) as i64))
zigzag_decode64(unsigned_value) ==
    BitXor(Shr(unsigned_value, 1), Neg(BitAnd(unsigned_value, ToBits(1)), W64))

write_varint(value) == write_unsigned_varint(zigzag_encode(value))

\* mutant of read_varint: every failure of the unsigned read is reported as Io
read_varint_all_io(src, p) ==
    LET u == read_unsigned_varint(src, p) IN
    IF u.tag # "Ok" THEN Outcome("Io", {}, u.pos)
    ELSE Outcome("Ok", zigzag_decode(u.val), u.pos)

read_varint(src, p) ==
    LET u == read_unsigned_varint(src, p) IN
    IF u.tag # "Ok" THEN u ELSE Outcome("Ok", zigzag_decode(u.val), u.pos)

read_varint64(src, p) ==
    LET u == read_unsigned_varint64(src, p) IN
    IF u.tag # "Ok" THEN u ELSE Outcome("Ok", zigzag_decode64(u.val), u.pos)

----------------------------------------------------------------------------
(* FixedWidthIntCodec, sequential big-endian *)

\* value.to_be_bytes(): most significant byte first
to_be_bytes(value) ==
    [k \in 1..IntBytes |-> AsByte(Shr(value, W8 * (IntBytes - k)))]

\* u32::from_be_bytes(bytes)
from_be_bytes(bytes) ==
    UNION {Shl(ToBits(bytes[k]), W8 * (IntBytes - k), W32) : k \in 1..IntBytes}

\* the bytes write_unsigned_int hands to buffer.write_all
write_unsigned_int(value) == to_be_bytes(value)

\* read_exact of 4 bytes, unwrapped: a short source aborts the call
read_unsigned_int(src, p) ==
    LET r == read_exact(src, p, IntBytes) IN
    IF ~r.ok THEN Outcome("panic", {}, r.pos)
    ELSE Outcome("Ok", from_be_bytes(r.bytes), r.pos)

----------------------------------------------------------------------------
(* FixedWidthIntCodec, indexed, on a byte slice *)

\* mutant of to_le_bytes: most significant byte first
to_le_bytes_msb_first(value) ==
    [k \in 1..IntBytes |-> AsByte(Shr(value, W8 * (IntBytes - k)))]

\* value.to_le_bytes(): least significant byte first
to_le_bytes(value) ==
    [k \in 1..IntBytes |-> AsByte(Shr(value, W8 * (k - 1)))]

\* the bytes write_unsigned_int_le hands to writer.write_all
write_unsigned_int_le(value) == to_le_bytes(value)

\* buffer[index..index + 4] is a range of the slice; indexing any other
\* range aborts the call
in_range(buffer, index) == index + IntBytes <= Len(buffer)

\* the outcome of an indexed accessor: what it returns and the slice after it
Access(tag, val, buffer) == [tag |-> tag, val |-> val, buf |-> buffer]

\* mutant of copy_from_slice: the bytes land one place early
copy_from_slice_early(buffer, index, bytes) ==
    [k \in 1..Len(buffer) |->
        IF k >= index /\ k < index + Len(bytes) /\ k >= 1 THEN bytes[k - index + 1]
        ELSE buffer[k]]

\* mutant of copy_from_slice: the last byte is also stored after the window
copy_from_slice_spilling(buffer, index, bytes) ==
    [k \in 1..Len(buffer) |->
        IF k > index /\ k <= index + Len(bytes) THEN bytes[k - index]
        ELSE IF k = index + Len(bytes) + 1 THEN bytes[Len(bytes)]
        ELSE buffer[k]]

\* buffer[index..index + n].copy_from_slice(bytes)
copy_from_slice(buffer, index, bytes) ==
    [k \in 1..Len(buffer) |->
        IF k > index /\ k <= index + Len(bytes) THEN bytes[k - index]
        ELSE buffer[k]]

read_unsigned_int_at(buffer, index) ==
    IF ~in_range(buffer, index) THEN Access("panic", {}, buffer)
    ELSE Access("Ok", from_be_bytes(SubSeq(buffer, index + 1, index + IntBytes)), buffer)

\* mutant of read_int_be: the bytes are taken least significant first
read_int_be_lsb_first(buffer, offset) ==
    IF ~in_range(buffer, offset) THEN Access("panic", {}, buffer)
    ELSE Access("Ok",
                UNION {Shl(ToBits(buffer[offset + k]), W8 * (k - 1), W32) : k \in 1..IntBytes},
                buffer)

\* i32::from_be_bytes gives the same 32 bits as u32::from_be_bytes
read_int_be(buffer, offset) ==
    IF ~in_range(buffer, offset) THEN Access("panic", {}, buffer)
    ELSE Access("Ok", from_be_bytes(SubSeq(buffer, offset + 1, offset + IntBytes)), buffer)

write_unsigned_int_at(buffer, index, value) ==
    IF ~in_range(buffer, index) THEN Access("panic", {}, buffer)
    ELSE Access("Ok", {}, copy_from_slice(buffer, index, to_be_bytes(value)))

write_unsigned_int_le_at(buffer, offset, value) ==
    IF ~in_range(buffer, offset) THEN Access("panic", {}, buffer)
    ELSE Access("Ok", {}, copy_from_slice(buffer, offset, to_le_bytes(value)))

write_int_be(buffer, index, value) ==
    IF ~in_range(buffer, index) THEN Access("panic", {}, buffer)
    ELSE Access("Ok", {}, copy_from_slice(buffer, index, to_be_bytes(value)))

(* Sequential writes to a sink of fixed capacity: a cursor over a slice *)

\* writer.write_all(bytes) on a Cursor<&mut [u8]> at position p: the bytes
\* that fit are copied and the position advanced, and the call fails unless
\* all of them fitted
write_all(buffer, p, bytes) ==
    LET room == IF Len(buffer) - p < Len(bytes) THEN Len(buffer) - p ELSE Len(bytes) IN
    [ok |-> room = Len(bytes),
     buf |-> copy_from_slice(buffer, p, SubSeq(bytes, 1, room)),
     pos |-> p + room]

\* write_unsigned_int: buffer.write_all(&value.to_be_bytes()).unwrap()
write_unsigned_int_to(buffer, p, value) ==
    LET w == write_all(buffer, p, write_unsigned_int(value)) IN
    [tag |-> IF w.ok THEN "Ok" ELSE "panic", buf |-> w.buf, pos |-> w.pos]

\* write_unsigned_int_le: writer.write_all(&value.to_le_bytes())
write_unsigned_int_le_to(buffer, p, value) ==
    LET w == write_all(buffer, p, write_unsigned_int_le(value)) IN
    [tag |-> IF w.ok THEN "Ok" ELSE "Io", buf |-> w.buf, pos |-> w.pos]

(* The varint encoders on a sink of fixed capacity *)

\* mutant of write_each: a refused byte is skipped and the rest is offered
RECURSIVE write_each_skipping(_, _, _, _)
write_each_skipping(buffer, p, bytes, calls) ==
    IF bytes = <<>> THEN [tag |-> "Ok", buf |-> buffer, pos |-> p, calls |-> calls]
    ELSE LET w == write_all(buffer, p, <<Head(bytes)>>) IN
         write_each_skipping(w.buf, w.pos, Tail(bytes), calls + 1)

\* writer.write_all(&[byte])? for each byte of an encoding in turn: the first
\* refusal returns Err(VarintError::Io) (#[from] io::Error) and no later byte
\* is offered; calls counts the write_all calls made
RECURSIVE write_each(_, _, _, _)
write_each(buffer, p, bytes, calls) ==
    IF bytes = <<>> THEN [tag |-> "Ok", buf |-> buffer, pos |-> p, calls |-> calls]
    ELSE LET w == write_all(buffer, p, <<Head(bytes)>>) IN
         IF ~w.ok THEN [tag |-> "Io", buf |-> w.buf, pos |-> w.pos, calls |-> calls + 1]
         ELSE write_each(w.buf, w.pos, Tail(bytes), calls + 1)

write_unsigned_varint_to(buffer, p, value) ==
    write_each(buffer, p, write_unsigned_varint(value), 0)

write_varint_to(buffer, p, value) ==
    write_each(buffer, p, write_varint(value), 0)

write_unsigned_varint64_to(buffer, p, value) ==
    write_each(buffer, p, write_unsigned_varint64(value), 0)

----------------------------------------------------------------------------
(* The reference decoders of the tests (simple_read_impl) *)

\* mutant of simple_too_long: the run is rejected one byte early
simple_too_long_early(i, limit) == i >= limit

\* if i > 28 (32 bit), if i > 63 (64 bit)
simple_too_long(i, limit) == i > limit

\* the loop of simple_read_impl: value and i are its locals
RECURSIVE simple_read_impl_loop(_, _, _, _, _, _)
simple_read_impl_loop(src, p, value, i, w, limit) ==
    LET r == read_exact(src, p, 1) IN
    IF ~r.ok THEN Outcome("Failed to read byte", {}, r.pos)
    ELSE LET b == r.bytes[1] IN
         IF ~continuation(b)
         THEN Outcome("Ok", BitOr(value, Shl(ToBits(b), i, w)), r.pos)
         ELSE LET value1 == BitOr(value, Shl(BitAnd(ToBits(b), ToBits(127)), i, w)) IN
              IF simple_too_long(i + 7, limit)
              THEN Outcome("Invalid varint", {}, r.pos)
              ELSE simple_read_impl_loop(src, r.pos, value1, i + 7, w, limit)

\* simple_read_impl of test_correctness_read_unsigned_varint
simple_read_impl(src, p) == simple_read_impl_loop(src, p, {}, 0, W32, 28)

\* simple_read_impl of test_correctness_read_unsigned_varint64
simple_read_impl64(src, p) == simple_read_impl_loop(src, p, {}, 0, W64, 63)

----------------------------------------------------------------------------
(* The i64-widened accessors of utils/mod.rs; an i64 is its 64-bit pattern *)

\* value as i32: the low 32 bits
i64_as_i32(value) == Trunc(value, W32)

\* mutant of u32_as_i64: the 32 bits are widened with their sign (i32 as i64)
i32_as_i64(bits) ==
    Trunc(bits, W32) \cup (IF (W32 - 1) \in bits THEN W32..(W64 - 1) ELSE {})

\* u32 as i64: the 32 bits, zero-extended
u32_as_i64(bits) == Trunc(bits, W32)

\* utils::write_unsigned_int: writer.write_i32::<BigEndian>(value as i32), on
\* a cursor over a slice at position p
utils_write_unsigned_int(buffer, p, value) ==
    LET w == write_all(buffer, p, to_be_bytes(i64_as_i32(value))) IN
    [tag |-> IF w.ok THEN "Ok" ELSE "Err", buf |-> w.buf, pos |-> w.pos]

\* utils::read_unsigned_int: Ok(reader.read_u32::<BigEndian>()? as i64)
utils_read_unsigned_int(src, p) ==
    LET r == read_exact(src, p, IntBytes) IN
    IF ~r.ok THEN Outcome("Err", {}, r.pos)
    ELSE Outcome("Ok", u32_as_i64(from_be_bytes(r.bytes)), r.pos)

\* utils::write_unsigned_int_from_pos
utils_write_unsigned_int_from_pos(buffer, index, value) ==
    IF Len(buffer) < index + IntBytes THEN Access("Err", {}, buffer)
    ELSE LET w == write_all(SubSeq(buffer, index + 1, Len(buffer)), 0,
                            to_be_bytes(i64_as_i32(value)))
         IN  Access(IF w.ok THEN "Ok" ELSE "Err", {},
                    SubSeq(buffer, 1, index) \o w.buf)

\* utils::read_unsigned_int_from_pos
utils_read_unsigned_int_from_pos(buffer, index) ==
    IF Len(buffer) < index + IntBytes THEN Access("Err", {}, buffer)
    ELSE LET r == read_exact(SubSeq(buffer, index + 1, Len(buffer)), 0, IntBytes)
         IN  IF ~r.ok THEN Access("Err", {}, buffer)
             ELSE Access("Ok", u32_as_i64(from_be_bytes(r.bytes)), buffer)

----------------------------------------------------------------------------
(* ConfigDefBuilder and ConfigDef of config_def.rs; an Option<String> is
   "None" or the string, an Option<ConfigKey> is <<>> or <<key>>;
   config_keys, an IndexMap, is its entries in insertion order *)

\* ConfigKey::new(name)
ConfigKey_new(name) ==
    [name |-> name, documentation |-> "None", default_value |-> "None",
     importance |-> "None"]

\* mutant of contains_key: no name is found
contains_key_never(config_keys, name) == FALSE

\* config_keys.contains_key(name)
contains_key(config_keys, name) ==
    \E k \in 1..Len(config_keys) : config_keys[k].name = name

\* config_keys.insert(key.name, key): a new name goes to the end, the entry
\* of a name already there is replaced in its place
insert(config_keys, key) ==
    IF contains_key(config_keys, key.name)
    THEN [k \in 1..Len(config_keys) |->
             IF config_keys[k].name = key.name THEN key ELSE config_keys[k]]
    ELSE Append(config_keys, key)

\* the outcome of a builder method: [panic, builder], the builder after it
\* unless it panicked

\* ConfigDefBuilder::commit_current_key
commit_current_key(b) ==
    IF b.current_key = <<>> THEN [panic |-> FALSE, builder |-> b]
    ELSE IF contains_key(b.config_keys, b.current_key[1].name) THEN [panic |-> TRUE, builder |-> b]
    ELSE [panic |-> FALSE,
          builder |-> [config_keys |-> insert(b.config_keys, b.current_key[1]),
                       current_key |-> <<>>]]

\* ConfigDefBuilder::new
builder_new(b, name) ==
    LET c == commit_current_key(b) IN
    IF c.panic THEN c
    ELSE [panic |-> FALSE,
          builder |-> [c.builder EXCEPT !.current_key = << ConfigKey_new(name) >>]]

\* importance, default_value, documentation: current_key_mut().field =
\* Some(value); current_key_mut panics when there is no current key
set_field(b, field, value) ==
    IF b.current_key = <<>> THEN [panic |-> TRUE, builder |-> b]
    ELSE [panic |-> FALSE, builder |-> [b EXCEPT !.current_key[1][field] = value]]

\* ConfigDefBuilder::build
build(b) == commit_current_key(b)

\* ConfigDef::find_key: Some(key) as <<key>>, None as <<>>
find_key(config_keys, name) ==
    IF contains_key(config_keys, name)
    THEN << config_keys[CHOOSE k \in 1..Len(config_keys) : config_keys[k].name = name] >>
    ELSE <<>>

----------------------------------------------------------------------------
(* The unit converters of config_synonym.rs. A string is the sequence of its
   characters; an integer of any width is the sequence of its decimal
   digits, most significant first, without leading zeros *)

DecimalChars == <<"0", "1", "2", "3", "4", "5", "6", "7", "8", "9">>

IsDigit(c) == \E d \in 1..10 : DecimalChars[d] = c

DigitOf(c) == (CHOOSE d \in 1..10 : DecimalChars[d] = c) - 1

\* 2^64, 2^31 - 1 and 2^31
TwoTo64 == <<1, 8, 4, 4, 6, 7, 4, 4, 0, 7, 3, 7, 0, 9, 5, 5, 1, 6, 1, 6>>
I32Max == <<2, 1, 4, 7, 4, 8, 3, 6, 4, 7>>
I32MinMagnitude == <<2, 1, 4, 7, 4, 8, 3, 6, 4, 8>>

RECURSIVE DecStrip(_)
DecStrip(a) ==
    IF Len(a) > 1 /\ a[1] = 0 THEN DecStrip(Tail(a)) ELSE a

RECURSIVE DecOfNat(_)
DecOfNat(n) == IF n < 10 THEN <<n>> ELSE Append(DecOfNat(n \div 10), n % 10)

\* a < b
DecLess(a, b) ==
    \/ Len(a) < Len(b)
    \/ /\ Len(a) = Len(b)
       /\ \E k \in 1..Len(a) : a[k] < b[k] /\ \A j \in 1..(k - 1) : a[j] = b[j]

\* the digits 1..i of a * k + carry * 10^(Len(a) - i)
RECURSIVE MulCarry(_, _, _, _)
MulCarry(a, k, i, carry) ==
    IF i = 0 THEN DecOfNat(carry)
    ELSE LET t == a[i] * k + carry
         IN  Append(MulCarry(a, k, i - 1, t \div 10), t % 10)

\* a * k, exactly
DecMul(a, k) == DecStrip(MulCarry(a, k, Len(a), 0))

\* the digits 1..i of a - b, for b padded to the length of a
RECURSIVE SubBorrow(_, _, _, _)
SubBorrow(a, b, i, borrow) ==
    IF i = 0 THEN <<>>
    ELSE LET t == a[i] - b[i] - borrow
         IN  Append(SubBorrow(a, b, i - 1, IF t < 0 THEN 1 ELSE 0),
                    IF t < 0 THEN t + 10 ELSE t)

\* a - b, for a >= b
DecSub(a, b) ==
    DecStrip(SubBorrow(a, [k \in 1..(Len(a) - Len(b)) |-> 0] \o b, Len(a), 0))

\* a modulo m by long division: m * 10^j is taken off while it fits
RECURSIVE DecMod(_, _, _)
DecMod(a, m, j) ==
    IF j < 0 THEN a
    ELSE LET shifted == m \o [k \in 1..j |-> 0]
         IN  IF DecLess(a, shifted) THEN DecMod(a, m, j - 1)
             ELSE DecMod(DecSub(a, shifted), m, j)

\* str::trim: the string without its leading and trailing white space
RECURSIVE trim(_)
trim(s) ==
    IF s = <<>> THEN s
    ELSE IF s[1] = " " THEN trim(Tail(s))
    ELSE IF s[Len(s)] = " " THEN trim(SubSeq(s, 1, Len(s) - 1))
    ELSE s

\* str::parse::<i32>: an optional sign and at least one decimal digit, within
\* i32::MIN..=i32::MAX; the value as sign and magnitude
parse_i32(s) ==
    LET signed == s # <<>> /\ s[1] \in {"+", "-"}
        digits == IF signed THEN Tail(s) ELSE s
        mag    == DecStrip([k \in 1..Len(digits) |-> DigitOf(digits[k])])
        neg    == signed /\ s[1] = "-"
    IN  IF digits = <<>> \/ \E k \in 1..Len(digits) : ~IsDigit(digits[k])
        THEN [ok |-> FALSE, neg |-> FALSE, mag |-> <<0>>]
        ELSE IF DecLess(IF neg THEN I32MinMagnitude ELSE I32Max, mag)
        THEN [ok |-> FALSE, neg |-> FALSE, mag |-> <<0>>]
        ELSE [ok |-> TRUE, neg |-> neg /\ mag # <<0>>, mag |-> mag]

\* value_to_int(input, 0, what)
value_to_int(input) ==
    LET trimmed == trim(input)
        parsed  == parse_i32(trimmed)
    IN  IF trimmed = <<>> \/ ~parsed.ok
        THEN [neg |-> FALSE, mag |-> <<0>>]
        ELSE [neg |-> parsed.neg, mag |-> parsed.mag]

\* value as u64: a negative i32 is sign-extended, 2^64 - |value|
as_u64(value) == IF value.neg THEN DecSub(TwoTo64, value.mag) ELSE value.mag

\* Duration::from_secs((value as u64) * per_unit).as_millis().to_string():
\* a product of 2^64 or more panics where overflow is checked (debug build)
\* and wraps where it is not (release build)
millis_string(value, per_unit, checked) ==
    LET product == DecMul(as_u64(value), per_unit)
        overflow == ~DecLess(product, TwoTo64)
        secs == IF overflow
                THEN DecMod(product, TwoTo64, Len(product) - Len(TwoTo64))
                ELSE product
        millis == DecMul(secs, 1000)
    IN  IF overflow /\ checked
        THEN [tag |-> "panic", out |-> <<>>]
        ELSE [tag |-> "Ok", out |-> [k \in 1..Len(millis) |-> DecimalChars[millis[k] + 1]]]

hours_to_milliseconds(input, checked) ==
    millis_string(value_to_int(input), 3600, checked)

minutes_to_milliseconds(input, checked) ==
    millis_string(value_to_int(input), 60, checked)

----------------------------------------------------------------------------
(* Inputs *)

\* 2^n - 1, 2^n and 2^n + 1 for every bit position n of a w-bit integer
Boundary(w) ==
    {0..(n - 1) : n \in 0..w} \cup {{n} : n \in 0..(w - 1)} \cup {{0, n} : n \in 1..(w - 1)}

\* every combination of the bits at the edges of the 7-bit groups of a u32
Probe32 == SUBSET {0, 6, 7, 13, 14, 20, 21, 27, 28, 31}

\* every combination of bits at group edges of a u64
Probe64 == SUBSET {0, 6, 7, 20, 21, 34, 35, 48, 49, 55, 56, 62, 63}

\* the (value, encoding) pairs of test_unsigned_varint_serde and of the
\* specification's table of unsigned varints
UnsignedVectors ==
    { [value |-> I32(0),              bytes |-> <<0>>],
      [value |-> I32(-1),             bytes |-> <<255, 255, 255, 255, 15>>],
      [value |-> I32(1),              bytes |-> <<1>>],
      [value |-> I32(63),             bytes |-> <<63>>],
      [value |-> I32(-64),            bytes |-> <<192, 255, 255, 255, 15>>],
      [value |-> I32(64),             bytes |-> <<64>>],
      [value |-> I32(300),            bytes |-> <<172, 2>>],
      [value |-> I32(8191),           bytes |-> <<255, 63>>],
      [value |-> I32(-8192),          bytes |-> <<128, 192, 255, 255, 15>>],
      [value |-> I32(8192),           bytes |-> <<128, 64>>],
      [value |-> I32(-8193),          bytes |-> <<255, 191, 255, 255, 15>>],
      [value |-> I32(1048575),        bytes |-> <<255, 255, 63>>],
      [value |-> I32(1048576),        bytes |-> <<128, 128, 64>>],
      [value |-> I32(2147483647),     bytes |-> <<255, 255, 255, 255, 7>>],
      [value |-> I32(-2147483647 - 1), bytes |-> <<128, 128, 128, 128, 8>>] }

\* the (value, encoding) pairs of test_varint_serde and of the specification's
\* table of zig-zag varints
SignedVectors ==
    { [value |-> I32(0),              bytes |-> <<0>>],
      [value |-> I32(-1),             bytes |-> <<1>>],
      [value |-> I32(1),              bytes |-> <<2>>],
      [value |-> I32(-2),             bytes |-> <<3>>],
      [value |-> I32(63),             bytes |-> <<126>>],
      [value |-> I32(-64),            bytes |-> <<127>>],
      [value |-> I32(64),             bytes |-> <<128, 1>>],
      [value |-> I32(-65),            bytes |-> <<129, 1>>],
      [value |-> I32(8191),           bytes |-> <<254, 127>>],
      [value |-> I32(-8192),          bytes |-> <<255, 127>>],
      [value |-> I32(8192),           bytes |-> <<128, 128, 1>>],
      [value |-> I32(-8193),          bytes |-> <<129, 128, 1>>],
      [value |-> I32(1048575),        bytes |-> <<254, 255, 127>>],
      [value |-> I32(-1048576),       bytes |-> <<255, 255, 127>>],
      [value |-> I32(1048576),        bytes |-> <<128, 128, 128, 1>>],
      [value |-> I32(-1048577),       bytes |-> <<129, 128, 128, 1>>],
      [value |-> I32(134217727),      bytes |-> <<254, 255, 255, 127>>],
      [value |-> I32(-134217728),     bytes |-> <<255, 255, 255, 127>>],
      [value |-> I32(134217728),      bytes |-> <<128, 128, 128, 128, 1>>],
      [value |-> I32(-134217729),     bytes |-> <<129, 128, 128, 128, 1>>],
      [value |-> I32(2147483647),     bytes |-> <<254, 255, 255, 255, 15>>],
      [value |-> I32(-2147483647 - 1), bytes |-> <<255, 255, 255, 255, 15>>] }

\* the u32 and i32 values the round-trip specification writes
ValuesU32 == Boundary(W32) \cup Probe32 \cup {v.value : v \in UnsignedVectors}
ValuesI32 == Boundary(W32) \cup Probe32 \cup {v.value : v \in SignedVectors}
\* the u64 values the round-trip specification writes
ValuesU64 == Boundary(W64) \cup Probe64

\* the values the stream specification writes: encodings of 1, 2, 3, 5 and
\* 10 bytes, and fixed-width patterns whose bytes look like varint bytes
StreamU32 == {I32(300), I32(-1)}
StreamI32 == {I32(-1), I32(-2147483647 - 1)}
StreamU64 == {{14}, 0..(W64 - 1)}
StreamInt == {I32(67305985), I32(-185339151)}

\* the bytes a peer feeds to a decoder: terminating bytes (continuation bit
\* clear) and continuation bytes
ByteSamples == {0, 1, 15, 16, 127, 128, 255}

\* the 4-byte patterns written to a slice: 0x04030201 and 0xf4f3f2f1 of the
\* tests, i32::MIN, and the palindrome 0xffffffff
BufValues == StreamInt \cup {I32(-2147483647 - 1), I32(-1)}

----------------------------------------------------------------------------
(* State machine *)

NoResult == [op |-> "none", tag |-> "none", val |-> {}]

\* no call in progress, no builder, no converter input
Elsewhere0 ==
    /\ tasks = <<>>
    /\ builder = [config_keys |-> <<>>, current_key |-> <<>>]
    /\ text = <<>>

Init ==
    /\ buf = <<>>
    /\ pos = 0
    /\ log = <<>>
    /\ rd = 0
    /\ res = NoResult
    /\ Elsewhere0

\* writer.write_all(bytes) on a Vec<u8>: the bytes are appended; the writer
\* notes the field it wrote
Write(op, value, bytes) ==
    /\ buf' = buf \o bytes
    /\ log' = Append(log, [op |-> op, value |-> value,
                           start |-> Len(buf), len |-> Len(bytes)])
    /\ UNCHANGED <<pos, rd, res>>
    /\ UNCHANGED elsewhere

\* a read operation called on the source at its current position
Read(op, o) ==
    /\ pos' = o.pos
    /\ res' = [op |-> op, tag |-> o.tag, val |-> o.val]
    /\ UNCHANGED elsewhere

\* the reader follows the writer's schema: the next unread field is of kind op
NextField(op) == rd < Len(log) /\ log[rd + 1].op = op

ReadUnsignedVarint ==
    /\ NextField("write_unsigned_varint")
    /\ Read("read_unsigned_varint", read_unsigned_varint(buf, pos))
    /\ rd' = rd + 1
    /\ UNCHANGED <<buf, log>>

ReadVarint ==
    /\ NextField("write_varint")
    /\ Read("read_varint", read_varint(buf, pos))
    /\ rd' = rd + 1
    /\ UNCHANGED <<buf, log>>

ReadUnsignedVarint64 ==
    /\ NextField("write_unsigned_varint64")
    /\ Read("read_unsigned_varint64", read_unsigned_varint64(buf, pos))
    /\ rd' = rd + 1
    /\ UNCHANGED <<buf, log>>

ReadUnsignedInt ==
    /\ NextField("write_unsigned_int")
    /\ Read("read_unsigned_int", read_unsigned_int(buf, pos))
    /\ rd' = rd + 1
    /\ UNCHANGED <<buf, log>>

(* Stream specification: up to MaxWrites fields written to one sink, in any
   mix, and read back in order *)

WriteUnsignedVarint ==
    /\ Len(log) < MaxWrites
    /\ \E v \in StreamU32 : Write("write_unsigned_varint", v, write_unsigned_varint(v))

WriteVarint ==
    /\ Len(log) < MaxWrites
    /\ \E v \in StreamI32 : Write("write_varint", v, write_varint(v))

WriteUnsignedVarint64 ==
    /\ Len(log) < MaxWrites
    /\ \E v \in StreamU64 : Write("write_unsigned_varint64", v, write_unsigned_varint64(v))

WriteUnsignedInt ==
    /\ Len(log) < MaxWrites
    /\ \E v \in StreamInt : Write("write_unsigned_int", v, write_unsigned_int(v))

Next ==
    \/ WriteUnsignedVarint
    \/ WriteVarint
    \/ WriteUnsignedVarint64
    \/ WriteUnsignedInt
    \/ ReadUnsignedVarint
    \/ ReadVarint
    \/ ReadUnsignedVarint64
    \/ ReadUnsignedInt

Spec == Init /\ [][Next]_vars

(* Round-trip specification: one value written to an empty sink and read
   back, as assert_unsigned_varint_serde and assert_varint_serde do *)

EncodeUnsignedVarint ==
    /\ log = <<>>
    /\ \E v \in ValuesU32 : Write("write_unsigned_varint", v, write_unsigned_varint(v))

EncodeVarint ==
    /\ log = <<>>
    /\ \E v \in ValuesI32 : Write("write_varint", v, write_varint(v))

EncodeUnsignedVarint64 ==
    /\ log = <<>>
    /\ \E v \in ValuesU64 : Write("write_unsigned_varint64", v, write_unsigned_varint64(v))

NextRT ==
    \/ EncodeUnsignedVarint
    \/ EncodeVarint
    \/ EncodeUnsignedVarint64
    \/ ReadUnsignedVarint
    \/ ReadVarint
    \/ ReadUnsignedVarint64

SpecRT == Init /\ [][NextRT]_vars

(* Decoder specification: a peer feeds bytes to the source, up to the first
   terminating byte or MaxSrcLen bytes, and one decoder is called on it *)

Terminated(src) == \E k \in 1..Len(src) : ~continuation(src[k])

Feed ==
    /\ res = NoResult
    /\ Len(buf) < MaxSrcLen
    /\ ~Terminated(buf)
    /\ \E b \in ByteSamples : buf' = Append(buf, b)
    /\ UNCHANGED <<pos, log, rd, res>>
    /\ UNCHANGED elsewhere

DecodeUnsignedVarint ==
    /\ res = NoResult
    /\ Read("read_unsigned_varint", read_unsigned_varint(buf, pos))
    /\ UNCHANGED <<buf, log, rd>>

DecodeVarint ==
    /\ res = NoResult
    /\ Read("read_varint", read_varint(buf, pos))
    /\ UNCHANGED <<buf, log, rd>>

DecodeUnsignedVarint64 ==
    /\ res = NoResult
    /\ Read("read_unsigned_varint64", read_unsigned_varint64(buf, pos))
    /\ UNCHANGED <<buf, log, rd>>

DecodeVarint64 ==
    /\ res = NoResult
    /\ Read("read_varint64", read_varint64(buf, pos))
    /\ UNCHANGED <<buf, log, rd>>

NextDec ==
    \/ Feed
    \/ DecodeUnsignedVarint
    \/ DecodeVarint
    \/ DecodeUnsignedVarint64
    \/ DecodeVarint64

SpecDec == Init /\ [][NextDec]_vars

(* Zig-zag specification: the two mappings of write_varint and read_varint
   applied to a value and then inverted by the other one, and a 64-bit value
   zig-zagged by the caller, written with write_unsigned_varint64 and read
   back with read_varint64 *)

\* the i32 values -MaxSmall..MaxSmall
SmallI32 == {I32(n) : n \in (0 - MaxSmall)..MaxSmall}

\* what a caller hands to write_unsigned_varint64 for an i64 v:
\* ((v << 1) ^ (v >> 63)) as u64
ZigZag64(v) == BitXor(Shl(v, 1, W64), Sar(v, 63, W64))

Applied(op, value, out) ==
    /\ log = <<>>
    /\ log' = <<[op |-> op, value |-> value, start |-> 0, len |-> 0]>>
    /\ res' = [op |-> op, tag |-> "Ok", val |-> out]
    /\ UNCHANGED <<buf, pos, rd>>
    /\ UNCHANGED elsewhere

Inverted(op, out) ==
    /\ rd = 0
    /\ rd' = 1
    /\ res' = [op |-> op, tag |-> "Ok", val |-> out]
    /\ UNCHANGED <<buf, pos, log>>
    /\ UNCHANGED elsewhere

ApplyZigZagEncode ==
    \E v \in ValuesI32 \cup SmallI32 : Applied("zigzag_encode", v, zigzag_encode(v))

ApplyZigZagDecode ==
    \E u \in ValuesU32 : Applied("zigzag_decode", u, zigzag_decode(u))

InvertWithDecode ==
    /\ res.op = "zigzag_encode"
    /\ Inverted("zigzag_decode", zigzag_decode(res.val))

InvertWithEncode ==
    /\ res.op = "zigzag_decode"
    /\ Inverted("zigzag_encode", zigzag_encode(res.val))

EncodeZigZag64 ==
    /\ log = <<>>
    /\ \E v \in ValuesU64 :
           Write("zigzag64", v, write_unsigned_varint64(ZigZag64(v)))

ReadVarint64 ==
    /\ rd < Len(log)
    /\ log[rd + 1].op \in {"zigzag64", "write_unsigned_varint64"}
    /\ Read("read_varint64", read_varint64(buf, pos))
    /\ rd' = rd + 1
    /\ UNCHANGED <<buf, log>>

NextZZ ==
    \/ ApplyZigZagEncode
    \/ ApplyZigZagDecode
    \/ InvertWithDecode
    \/ InvertWithEncode
    \/ EncodeZigZag64
    \/ EncodeUnsignedVarint64
    \/ ReadVarint64

SpecZZ == Init /\ [][NextZZ]_vars

(* Signed-codec specification: one write_varint into an empty sink, or a
   source fed by a peer, and one read_varint on it *)

SignedWrite ==
    /\ buf = <<>>
    /\ res = NoResult
    /\ EncodeVarint

NextSigned ==
    \/ SignedWrite
    \/ Feed
    \/ DecodeVarint

SpecSigned == Init /\ [][NextSigned]_vars

(* Slice specification: a zeroed byte slice of some length with a cursor
   over it; the fixed-width accessors are called at every index, in range or
   not, and the sequential ones through the cursor. A writer lays its fields
   out in disjoint windows, as test_read_write_int_be does, and a call that
   aborts or fails ends the run *)

InitBuf ==
    /\ \E n \in 0..MaxBufLen : buf = [k \in 1..n |-> 0]
    /\ pos = 0
    /\ log = <<>>
    /\ rd = 0
    /\ res = NoResult
    /\ Elsewhere0

Running == res.tag \notin {"panic", "Io"}

\* no field written so far overlaps the window at index
FieldFree(index) ==
    \A i \in 1..Len(log) :
        index + IntBytes <= log[i].start \/ log[i].start + log[i].len <= index

\* an indexed write: the slice after it, the outcome, and the field noted
WriteAt(op, index, value, a) ==
    /\ buf' = a.buf
    /\ res' = [op |-> op, tag |-> a.tag, val |-> value, at |-> index]
    /\ log' = IF a.tag = "Ok"
              THEN Append(log, [op |-> op, value |-> value,
                                start |-> index, len |-> IntBytes])
              ELSE log
    /\ UNCHANGED <<pos, rd>>
    /\ UNCHANGED elsewhere

\* an indexed read: the outcome
ReadAt(op, index, a) ==
    /\ buf' = a.buf
    /\ res' = [op |-> op, tag |-> a.tag, val |-> a.val, at |-> index]
    /\ UNCHANGED <<pos, log, rd>>
    /\ UNCHANGED elsewhere

\* a sequential write through the cursor
WriteSeq(op, value, w) ==
    /\ buf' = w.buf
    /\ pos' = w.pos
    /\ res' = [op |-> op, tag |-> w.tag, val |-> value, at |-> pos]
    /\ log' = IF w.tag = "Ok"
              THEN Append(log, [op |-> op, value |-> value,
                                start |-> pos, len |-> IntBytes])
              ELSE log
    /\ UNCHANGED rd
    /\ UNCHANGED elsewhere

WriteUnsignedIntAt ==
    /\ Running
    /\ \E index \in 0..Len(buf), value \in BufValues :
           /\ FieldFree(index)
           /\ WriteAt("write_unsigned_int_at", index, value,
                      write_unsigned_int_at(buf, index, value))

WriteUnsignedIntLeAt ==
    /\ Running
    /\ \E offset \in 0..Len(buf), value \in BufValues :
           /\ FieldFree(offset)
           /\ WriteAt("write_unsigned_int_le_at", offset, value,
                      write_unsigned_int_le_at(buf, offset, value))

WriteIntBe ==
    /\ Running
    /\ \E index \in 0..Len(buf), value \in BufValues :
           /\ FieldFree(index)
           /\ WriteAt("write_int_be", index, value, write_int_be(buf, index, value))

ReadUnsignedIntAt ==
    /\ Running
    /\ \E index \in 0..Len(buf) :
           ReadAt("read_unsigned_int_at", index, read_unsigned_int_at(buf, index))

ReadIntBe ==
    /\ Running
    /\ \E offset \in 0..Len(buf) :
           ReadAt("read_int_be", offset, read_int_be(buf, offset))

SeqWriteUnsignedInt ==
    /\ Running
    /\ FieldFree(pos)
    /\ \E value \in BufValues :
           WriteSeq("write_unsigned_int", value, write_unsigned_int_to(buf, pos, value))

SeqWriteUnsignedIntLe ==
    /\ Running
    /\ FieldFree(pos)
    /\ \E value \in BufValues :
           WriteSeq("write_unsigned_int_le", value,
                    write_unsigned_int_le_to(buf, pos, value))

SeqReadUnsignedInt ==
    /\ Running
    /\ LET o == read_unsigned_int(buf, pos) IN
           /\ pos' = o.pos
           /\ res' = [op |-> "read_unsigned_int", tag |-> o.tag, val |-> o.val, at |-> pos]
    /\ UNCHANGED <<buf, log, rd>>
    /\ UNCHANGED elsewhere

NextBuf ==
    \/ WriteUnsignedIntAt
    \/ WriteUnsignedIntLeAt
    \/ WriteIntBe
    \/ ReadUnsignedIntAt
    \/ ReadIntBe
    \/ SeqWriteUnsignedInt
    \/ SeqWriteUnsignedIntLe
    \/ SeqReadUnsignedInt

SpecBuf == InitBuf /\ [][NextBuf]_vars

(* Sink specification: the varint encoders write one value after another
   through a cursor over a zeroed slice of some capacity, until one of them
   is refused a byte *)

InitSink ==
    /\ \E n \in 0..MaxSinkLen : buf = [k \in 1..n |-> 0]
    /\ pos = 0
    /\ log = <<>>
    /\ rd = 0
    /\ res = NoResult
    /\ Elsewhere0

\* an encoder called on the sink: the sink after it, the outcome with the
\* number of write_all calls it made, and the field noted if it was written
Emit(op, value, w) ==
    /\ buf' = w.buf
    /\ pos' = w.pos
    /\ res' = [op |-> op, tag |-> w.tag, val |-> value, at |-> pos, calls |-> w.calls]
    /\ log' = IF w.tag = "Ok"
              THEN Append(log, [op |-> op, value |-> value,
                                start |-> pos, len |-> w.pos - pos])
              ELSE log
    /\ UNCHANGED rd
    /\ UNCHANGED elsewhere

SinkWriteUnsignedVarint ==
    /\ Running
    /\ \E value \in StreamU32 \cup {I32(1)} :
           Emit("write_unsigned_varint", value, write_unsigned_varint_to(buf, pos, value))

SinkWriteVarint ==
    /\ Running
    /\ \E value \in StreamI32 \cup {I32(150)} :
           Emit("write_varint", value, write_varint_to(buf, pos, value))

SinkWriteUnsignedVarint64 ==
    /\ Running
    /\ \E value \in StreamU64 :
           Emit("write_unsigned_varint64", value,
                write_unsigned_varint64_to(buf, pos, value))

NextSink ==
    \/ SinkWriteUnsignedVarint
    \/ SinkWriteVarint
    \/ SinkWriteUnsignedVarint64

SpecSink == InitSink /\ [][NextSink]_vars

(* Two-call specification: two codec calls, each on a source or sink of its
   own, advance one source read or sink write at a time in any interleaving.
   A call in progress is [op, buf0, value, buf, pos, i, result, shift, out]:
   its input, its source or sink and position, the locals of its loop, and
   its return value once it has returned *)

NoOut == [tag |-> "none", val |-> {}]

Finish(t, tag, val) == [t EXCEPT !.out = [tag |-> tag, val |-> val]]

\* one iteration of the loop of read_unsigned_varint (w = 32, max = 5) or
\* read_unsigned_varint64 (w = 64, max = 10)
reader_iteration(t, w, max) ==
    IF t.i >= max THEN Finish(t, "UnterminatedVarint", {})
    ELSE LET r == read_exact(t.buf, t.pos, 1) IN
         IF ~r.ok THEN Finish(t, "Io", {})
         ELSE LET byte == r.bytes[1]
                  t1 == [t EXCEPT !.pos = r.pos]
              IN  IF too_long(t.i, byte, max - 1)
                  THEN Finish(t1, "VarintTooLong", {})
                  ELSE LET result1 == accumulate(t.result, byte, t.shift, w) IN
                       IF ~continuation(byte)
                       THEN Finish(t1, "Ok", result1)
                       ELSE [t1 EXCEPT !.i = t.i + 1, !.result = result1,
                                       !.shift = t.shift + 7]

\* read_varint: the unsigned loop, and the zig-zag decoding once it returns Ok
signed_reader_iteration(t) ==
    LET u == reader_iteration(t, W32, MaxVarintBytes32) IN
    IF u.out.tag = "Ok" THEN Finish(u, "Ok", zigzag_decode(u.out.val)) ELSE u

\* the next write_all of write_unsigned_varint: byte number i of the unrolled
\* cascade, the last one when no bit is left above it
writer_iteration(t) ==
    LET last == t.i = MaxVarintBytes32 - 1 \/ no_bits_above(t.result, 7 * (t.i + 1))
        byte == IF last THEN last_group(t.result, 7 * t.i)
                ELSE cont_group(t.result, 7 * t.i)
        t1 == [t EXCEPT !.buf = Append(t.buf, byte), !.i = t.i + 1]
    IN  IF last THEN Finish(t1, "Ok", {}) ELSE t1

\* one iteration of the loop of write_unsigned_varint64, or its final write
writer64_iteration(t) ==
    IF more_groups(t.result)
    THEN [t EXCEPT !.buf = Append(t.buf,
                       ToNat(BitOr(BitAnd(Trunc(t.result, W8), ToBits(127)), ToBits(128)))),
                   !.result = Shr(t.result, 7)]
    ELSE Finish([t EXCEPT !.buf = Append(t.buf, AsByte(t.result))], "Ok", {})

\* read_unsigned_int: one read_exact of 4 bytes
fixed_read(t) ==
    LET o == read_unsigned_int(t.buf, t.pos) IN
    Finish([t EXCEPT !.pos = o.pos], o.tag, o.val)

\* write_unsigned_int: one write_all of 4 bytes
fixed_write(t) ==
    Finish([t EXCEPT !.buf = t.buf \o write_unsigned_int(t.value)], "Ok", {})

TaskStep(t) ==
    CASE t.op = "read_unsigned_varint" -> reader_iteration(t, W32, MaxVarintBytes32)
      [] t.op = "read_varint" -> signed_reader_iteration(t)
      [] t.op = "read_unsigned_varint64" -> reader_iteration(t, W64, MaxVarintBytes64)
      [] t.op \in {"write_unsigned_varint", "write_varint"} -> writer_iteration(t)
      [] t.op = "write_unsigned_varint64" -> writer64_iteration(t)
      [] t.op = "read_unsigned_int" -> fixed_read(t)
      [] t.op = "write_unsigned_int" -> fixed_write(t)

\* a call entered: its locals as the function initialises them
Call(op, buffer, value) ==
    [op |-> op, buf0 |-> buffer, value |-> value, buf |-> buffer, pos |-> 0, i |-> 0,
     result |-> CASE op = "write_varint" -> zigzag_encode(value)
                  [] op \in {"write_unsigned_varint", "write_unsigned_varint64"} -> value
                  [] OTHER -> {},
     shift |-> 0, out |-> NoOut]

\* byte sources: empty, one byte, 300, a run cut short, u32::MAX, an overlong
\* run, nine continuation bytes and a terminator
TaskSources ==
    {<<>>, <<1>>, <<172, 2>>, <<128, 128>>, <<1, 2, 3, 4, 5>>,
     <<255, 255, 255, 255, 15>>, <<255, 255, 255, 255, 255, 1>>,
     <<128, 128, 128, 128, 128, 128, 128, 128, 128, 1>>}

\* sinks: an empty Vec and one that already holds a byte
TaskSinks == {<<>>, <<7>>}

Calls ==
    {Call(op, src, {}) :
        op \in {"read_unsigned_varint", "read_varint", "read_unsigned_varint64",
                "read_unsigned_int"},
        src \in TaskSources}
    \cup {Call("write_unsigned_varint", snk, v) : snk \in TaskSinks, v \in StreamU32}
    \cup {Call("write_varint", snk, v) : snk \in TaskSinks, v \in StreamI32}
    \cup {Call("write_unsigned_varint64", snk, v) : snk \in TaskSinks, v \in StreamU64}
    \cup {Call("write_unsigned_int", snk, v) : snk \in TaskSinks, v \in StreamInt}

InitTasks ==
    /\ buf = <<>>
    /\ pos = 0
    /\ log = <<>>
    /\ rd = 0
    /\ res = NoResult
    /\ \E a \in Calls, b \in Calls : tasks = <<a, b>>
    /\ builder = [config_keys |-> <<>>, current_key |-> <<>>]
    /\ text = <<>>

\* mutant of Step: the accumulator is shared, the step of one call clears it
\* for the other
StepClobbering(k) ==
    /\ tasks[k].out = NoOut
    /\ tasks' = [j \in 1..2 |-> IF j = k THEN TaskStep(tasks[k])
                                ELSE [tasks[j] EXCEPT !.result = {}]]
    /\ UNCHANGED <<buf, pos, log, rd, res, builder, text>>

\* call k makes its next source read or sink write; the other call's state
\* is not an argument of any codec function and stays as it is
Step(k) ==
    /\ tasks[k].out = NoOut
    /\ tasks' = [tasks EXCEPT ![k] = TaskStep(tasks[k])]
    /\ UNCHANGED <<buf, pos, log, rd, res, builder, text>>

StepFirst == Step(1)

StepSecond == Step(2)

NextTasks ==
    \/ StepFirst
    \/ StepSecond

SpecTasks == InitTasks /\ [][NextTasks]_vars

(* Reference specification: the bytes of one encoded value, or a source fed
   by a peer, are decoded by the function under test and by the reference
   decoder, each from the start, as the correctness tests do *)

\* actual is the outcome of the function under test, expected that of the
\* reference decoder
Compare(op, actual, expected) ==
    /\ res = NoResult
    /\ pos' = actual.pos
    /\ res' = [op |-> op, tag |-> actual.tag, val |-> actual.val,
               expected |-> [tag |-> expected.tag, val |-> expected.val,
                             pos |-> expected.pos]]
    /\ UNCHANGED <<buf, log, rd>>
    /\ UNCHANGED elsewhere

RefEncodeUnsignedVarint ==
    /\ buf = <<>>
    /\ res = NoResult
    /\ EncodeUnsignedVarint

RefEncodeUnsignedVarint64 ==
    /\ buf = <<>>
    /\ res = NoResult
    /\ EncodeUnsignedVarint64

CompareUnsignedVarint ==
    Compare("read_unsigned_varint", read_unsigned_varint(buf, 0), simple_read_impl(buf, 0))

CompareUnsignedVarint64 ==
    Compare("read_unsigned_varint64", read_unsigned_varint64(buf, 0),
            simple_read_impl64(buf, 0))

NextRef ==
    \/ Feed
    \/ RefEncodeUnsignedVarint
    \/ RefEncodeUnsignedVarint64
    \/ CompareUnsignedVarint
    \/ CompareUnsignedVarint64

SpecRef == Init /\ [][NextRef]_vars

(* Retry specification: bytes arrive at the source one at a time, and a
   caller whose decode failed because the source ran out calls a decoder
   again on the same source, at most MaxCalls times in all, until a call
   returns a value or rejects the run *)

\* the bytes that arrive: terminating and continuation bytes, with and
\* without payload
ArrivingBytes == {0, 1, 128, 129, 255}

Arrive ==
    /\ Len(buf) < MaxArrived
    /\ Len(log) < MaxCalls
    /\ res.tag \in {"none", "Io"}
    /\ \E b \in ArrivingBytes : buf' = Append(buf, b)
    /\ UNCHANGED <<pos, log, rd, res>>
    /\ UNCHANGED elsewhere

\* one call of a decoder on the source as it is now; the caller notes where
\* the call started, how many bytes had arrived, and what it returned
Retry(op, o) ==
    /\ res.tag \in {"none", "Io"}
    /\ Read(op, o)
    /\ log' = Append(log, [op |-> op, start |-> pos, avail |-> Len(buf),
                           tag |-> o.tag, val |-> o.val, pos |-> o.pos])
    /\ UNCHANGED <<buf, rd>>

RetryUnsignedVarint ==
    /\ Len(log) < MaxCalls
    /\ Retry("read_unsigned_varint", read_unsigned_varint(buf, pos))

RetryUnsignedVarint64 ==
    /\ Len(log) < MaxCalls
    /\ Retry("read_unsigned_varint64", read_unsigned_varint64(buf, pos))

NextRetry ==
    \/ Arrive
    \/ RetryUnsignedVarint
    \/ RetryUnsignedVarint64

SpecRetry == Init /\ [][NextRetry]_vars

(* Widened-accessor specification: i64 values are written through a cursor
   over a zeroed slice and at offsets of the slice with the accessors of
   utils/mod.rs, each at a window no earlier field occupies, and read back;
   the cursor can be set back to the start *)

\* the i64 values written: 133444 of the test, the ends of 0..=4294967295,
\* values beyond them that share their low 32 bits, and negative values
WideValues ==
    { {}, I32(133444), I32(-1), {W32}, {W32} \cup I32(133444), {W32 - 1},
      (W32 - 1)..(W64 - 1), 0..(W64 - 1), {W64 - 1} }

\* no call has returned an error
Returned == res.tag # "Err"

UtilsWriteUnsignedInt ==
    /\ Returned
    /\ FieldFree(pos)
    /\ \E value \in WideValues :
           WriteSeq("utils::write_unsigned_int", value,
                    utils_write_unsigned_int(buf, pos, value))

UtilsReadUnsignedInt ==
    /\ Returned
    /\ LET o == utils_read_unsigned_int(buf, pos) IN
           /\ pos' = o.pos
           /\ res' = [op |-> "utils::read_unsigned_int", tag |-> o.tag,
                      val |-> o.val, at |-> pos]
    /\ UNCHANGED <<buf, log, rd>>
    /\ UNCHANGED elsewhere

UtilsWriteUnsignedIntFromPos ==
    /\ Returned
    /\ \E index \in 0..Len(buf), value \in WideValues :
           /\ FieldFree(index)
           /\ WriteAt("utils::write_unsigned_int_from_pos", index, value,
                      utils_write_unsigned_int_from_pos(buf, index, value))

UtilsReadUnsignedIntFromPos ==
    /\ Returned
    /\ \E index \in 0..Len(buf) :
           ReadAt("utils::read_unsigned_int_from_pos", index,
                  utils_read_unsigned_int_from_pos(buf, index))

\* buffer.set_position(0)
SetPosition ==
    /\ Returned
    /\ pos # 0
    /\ pos' = 0
    /\ UNCHANGED <<buf, log, rd, res>>
    /\ UNCHANGED elsewhere

NextWide ==
    \/ UtilsWriteUnsignedInt
    \/ UtilsReadUnsignedInt
    \/ UtilsWriteUnsignedIntFromPos
    \/ UtilsReadUnsignedIntFromPos
    \/ SetPosition

SpecWide == InitBuf /\ [][NextWide]_vars

(* Builder specification: a caller chains at most MaxBuilderCalls calls of
   new and of the setters on ConfigDef::builder(), calls build, and looks
   names up in the ConfigDef; a panic ends the run *)

KeyNames == {"a", "b"}
DefaultValues == {"5", "hello"}
Importances == {"HIGH", "LOW"}
Documentations == {"docs"}

\* a call on the builder: its outcome, and the call noted in the history
BuilderCall(op, value, c) ==
    /\ res.op \notin {"build", "find_key"}
    /\ res.tag # "panic"
    /\ builder' = c.builder
    /\ res' = [op |-> op, tag |-> IF c.panic THEN "panic" ELSE "Ok", val |-> {}]
    /\ log' = Append(log, [op |-> op, value |-> value])
    /\ UNCHANGED <<buf, pos, rd, tasks, text>>

BuilderNew ==
    /\ Len(log) < MaxBuilderCalls
    /\ \E name \in KeyNames : BuilderCall("new", name, builder_new(builder, name))

BuilderDefaultValue ==
    /\ Len(log) < MaxBuilderCalls
    /\ \E value \in DefaultValues :
           BuilderCall("default_value", value, set_field(builder, "default_value", value))

BuilderImportance ==
    /\ Len(log) < MaxBuilderCalls
    /\ \E value \in Importances :
           BuilderCall("importance", value, set_field(builder, "importance", value))

BuilderDocumentation ==
    /\ Len(log) < MaxBuilderCalls
    /\ \E value \in Documentations :
           BuilderCall("documentation", value, set_field(builder, "documentation", value))

BuilderBuild ==
    /\ Len(log) <= MaxBuilderCalls
    /\ BuilderCall("build", "", build(builder))

\* def.find_key(name) on the ConfigDef that build returned
FindKey ==
    /\ res.op \in {"build", "find_key"}
    /\ res.tag # "panic"
    /\ \E name \in KeyNames \cup {"c"} :
           res' = [op |-> "find_key", tag |-> "Ok", val |-> {}, name |-> name,
                   found |-> find_key(builder.config_keys, name)]
    /\ UNCHANGED <<buf, pos, log, rd, tasks, builder, text>>

NextBuilder ==
    \/ BuilderNew
    \/ BuilderDefaultValue
    \/ BuilderImportance
    \/ BuilderDocumentation
    \/ BuilderBuild
    \/ FindKey

SpecBuilder == Init /\ [][NextBuilder]_vars

(* Converter specification: a converter is called on an input string, in a
   build that checks integer overflow or in one that does not *)

TextChars == {" ", "-", "+", "0", "1", "9", "x"}

\* the inputs of the tests, and the ends of i32
TestTexts ==
    { <<"1", "2", "3">>, <<" ", "1", "2", "3", " ">>,
      <<"n", "o", "t", "_", "a", "_", "n", "u", "m", "b", "e", "r">>,
      <<"2", "1", "4", "7", "4", "8", "3", "6", "4", "7">>,
      <<"2", "1", "4", "7", "4", "8", "3", "6", "4", "8">>,
      <<"-", "2", "1", "4", "7", "4", "8", "3", "6", "4", "8">>,
      <<"-", "2", "1", "4", "7", "4", "8", "3", "6", "4", "9">> }

InitText ==
    /\ buf = <<>>
    /\ pos = 0
    /\ log = <<>>
    /\ rd = 0
    /\ res = NoResult
    /\ tasks = <<>>
    /\ builder = [config_keys |-> <<>>, current_key |-> <<>>]
    /\ text \in TestTexts \cup UNION {[1..n -> TextChars] : n \in 0..MaxTextLen}

Convert(op, o) ==
    /\ res' = [op |-> op, tag |-> o.tag, val |-> {}, out |-> o.out]
    /\ UNCHANGED <<buf, pos, log, rd, tasks, builder, text>>

HoursToMilliseconds ==
    /\ res = NoResult
    /\ \E checked \in BOOLEAN :
           Convert("hours_to_milliseconds", hours_to_milliseconds(text, checked))

MinutesToMilliseconds ==
    /\ res = NoResult
    /\ \E checked \in BOOLEAN :
           Convert("minutes_to_milliseconds", minutes_to_milliseconds(text, checked))

NextText ==
    \/ HoursToMilliseconds
    \/ MinutesToMilliseconds

SpecText == InitText /\ [][NextText]_vars

----------------------------------------------------------------------------
(* Properties *)

\* the field the last read read back
LastField == log[rd]

\* the first n bytes of src all carry the continuation bit
ContinuationPrefix(src, n) ==
    Len(src) >= n /\ \A k \in 1..n : continuation(src[k])

\* src is one terminated varint run of at most n bytes: the continuation bit
\* is set on every byte but the last
WellFormed(src, n) ==
    /\ Len(src) \in 1..n
    /\ \A k \in 1..(Len(src) - 1) : continuation(src[k])
    /\ ~continuation(src[Len(src)])

\* the integer a varint run denotes, sum over k of (byte_k & 0x7F) * 2^(7k),
\* as an unbounded bit pattern
ExactValue(bytes) ==
    UNION {{7 * (k - 1) + j : j \in ToBits(bytes[k] % 128)} : k \in 1..Len(bytes)}

\* k is the smallest number >= 1 of 7-bit groups that hold v, and k <= maxk
MinimalLength(v, k, maxk) ==
    /\ k >= 1
    /\ k <= maxk
    /\ \A b \in v : b < 7 * k
    /\ k > 1 => \E b \in v : b >= 7 * (k - 1)

\* C1: a u32 written with write_unsigned_varint into an empty sink and read
\* back with read_unsigned_varint comes back as Ok of the same value.
C1_RoundTripUnsigned32 ==
    res.op = "read_unsigned_varint" =>
        /\ res.tag = "Ok"
        /\ res.val = LastField.value

C1_Witness ==
    /\ res.op = "read_unsigned_varint"
    /\ LastField.value = 0..(W32 - 1)
    /\ res.val = 0..(W32 - 1)
    /\ Len(buf) = 5

\* C2: an i32, i32::MIN and i32::MAX included, written with write_varint into
\* an empty sink and read back with read_varint comes back as Ok of the same
\* value.
C2_RoundTripSigned32 ==
    res.op = "read_varint" =>
        /\ res.tag = "Ok"
        /\ res.val = LastField.value

C2_Witness ==
    /\ res.op = "read_varint"
    /\ LastField.value = I32(-2147483647 - 1)
    /\ res.tag = "Ok"
    /\ res.val = {W32 - 1}

\* C3: a u64 (0, u64::MAX, 2^n - 1, 2^n, 2^n + 1) written with
\* write_unsigned_varint64 into an empty sink and read back with
\* read_unsigned_varint64 comes back as Ok of the same value.
C3_RoundTripUnsigned64 ==
    res.op = "read_unsigned_varint64" =>
        /\ res.tag = "Ok"
        /\ res.val = LastField.value

C3_Witness ==
    /\ res.op = "read_unsigned_varint64"
    /\ LastField.value = 0..(W64 - 1)
    /\ res.tag = "Ok"
    /\ res.val = 0..(W64 - 1)
    /\ Len(buf) = 10

\* C4: the encoders are canonical: write_unsigned_varint and
\* write_unsigned_varint64 emit the smallest number k >= 1 of bytes with
\* v < 2^(7k), at most 5 and 10 bytes.
C4_CanonicalLength ==
    log # <<>> =>
        /\ log[1].op = "write_unsigned_varint" =>
               MinimalLength(log[1].value, Len(buf), 5)
        /\ log[1].op = "write_unsigned_varint64" =>
               MinimalLength(log[1].value, Len(buf), 10)

C4_Witness ==
    /\ log # <<>>
    /\ log[1].op = "write_unsigned_varint"
    /\ log[1].value = {14}
    /\ Len(buf) = 3

\* C5: a source whose first 5 bytes all carry the continuation bit makes
\* read_unsigned_varint and read_varint fail with VarintTooLong, whatever
\* follows; likewise the first 10 bytes for read_unsigned_varint64 and
\* read_varint64.
C5_OverlongRejected ==
    /\ (res.op \in {"read_unsigned_varint", "read_varint"} /\ ContinuationPrefix(buf, 5))
           => res.tag = "VarintTooLong"
    /\ (res.op \in {"read_unsigned_varint64", "read_varint64"} /\ ContinuationPrefix(buf, 10))
           => res.tag = "VarintTooLong"

C5_Witness ==
    /\ res.op = "read_varint64"
    /\ ContinuationPrefix(buf, 10)
    /\ Len(buf) = 11
    /\ res.tag = "VarintTooLong"

\* C6: a source that ends, empty or after fewer than 5 bytes (32-bit
\* decoders) or 10 bytes (64-bit decoders) that all carry the continuation
\* bit, makes the decoder fail with the end-of-stream error as
\* VarintError::Io, never Ok.
C6_TruncatedIsIo ==
    /\ (res.op \in {"read_unsigned_varint", "read_varint"}
            /\ Len(buf) < 5 /\ ContinuationPrefix(buf, Len(buf)))
           => res.tag = "Io"
    /\ (res.op \in {"read_unsigned_varint64", "read_varint64"}
            /\ Len(buf) < 10 /\ ContinuationPrefix(buf, Len(buf)))
           => res.tag = "Io"

C6_Witness ==
    /\ res.op = "read_unsigned_varint64"
    /\ Len(buf) = 9
    /\ ContinuationPrefix(buf, 9)
    /\ res.tag = "Io"

\* C7: on a terminated run of at most 5 bytes read_unsigned_varint returns Ok
\* of exactly the integer the run denotes or an error, never Ok of a
\* truncated value; likewise read_unsigned_varint64 on at most 10 bytes.
C7_NoSilentTruncation ==
    /\ (res.op = "read_unsigned_varint" /\ WellFormed(buf, 5) /\ res.tag = "Ok")
           => res.val = ExactValue(buf)
    /\ (res.op = "read_unsigned_varint64" /\ WellFormed(buf, 10) /\ res.tag = "Ok")
           => res.val = ExactValue(buf)

\* C8: the decoders accept non-minimal encodings: a terminated run of at most
\* 5 (10) bytes decodes to Ok, trailing zero groups included (0x80 0x00 is
\* 0), with the value the minimal encoding of that value decodes to.
C8_NonMinimalAccepted ==
    /\ (res.op = "read_unsigned_varint" /\ WellFormed(buf, 5)) =>
           /\ res.tag = "Ok"
           /\ read_unsigned_varint(write_unsigned_varint(res.val), 0).val = res.val
           /\ ExactValue(buf) \subseteq 0..(W32 - 1) =>
                  LET m == read_unsigned_varint(write_unsigned_varint(ExactValue(buf)), 0)
                  IN  m.tag = "Ok" /\ res.val = m.val
    /\ (res.op = "read_unsigned_varint64" /\ WellFormed(buf, 10)) =>
           /\ res.tag = "Ok"
           /\ read_unsigned_varint64(write_unsigned_varint64(res.val), 0).val = res.val
           /\ ExactValue(buf) \subseteq 0..(W64 - 1) =>
                  LET m == read_unsigned_varint64(write_unsigned_varint64(ExactValue(buf)), 0)
                  IN  m.tag = "Ok" /\ res.val = m.val
    /\ (res.op \in {"read_unsigned_varint", "read_unsigned_varint64"} /\ buf = <<128, 0>>)
           => res.val = {}

C8_Witness ==
    /\ res.op = "read_unsigned_varint"
    /\ buf = <<128, 128, 128, 128, 0>>
    /\ res.tag = "Ok"
    /\ res.val = {}

\* C9: for every listed (value, bytes) pair write_unsigned_varint (unsigned
\* pairs) and write_varint (signed pairs) emit exactly those bytes and the
\* matching decoder maps the bytes back to the value.
C9_LiteralVectors ==
    /\ \A vec \in UnsignedVectors :
           /\ (log # <<>> /\ log[1].op = "write_unsigned_varint" /\ log[1].value = vec.value)
                  => buf = vec.bytes
           /\ (res.op = "read_unsigned_varint" /\ buf = vec.bytes)
                  => (res.tag = "Ok" /\ res.val = vec.value)
    /\ \A vec \in SignedVectors :
           /\ (log # <<>> /\ log[1].op = "write_varint" /\ log[1].value = vec.value)
                  => buf = vec.bytes
           /\ (res.op = "read_varint" /\ buf = vec.bytes)
                  => (res.tag = "Ok" /\ res.val = vec.value)

C9_Witness ==
    /\ res.op = "read_varint"
    /\ buf = <<128, 1>>
    /\ log[1].value = I32(64)
    /\ res.val = I32(64)

\* the bytes a write operation emits for a value
EncodingOf(op, value) ==
    CASE op = "write_unsigned_varint" -> write_unsigned_varint(value)
      [] op = "write_varint" -> write_varint(value)
      [] op = "write_unsigned_varint64" -> write_unsigned_varint64(value)
      [] op = "write_unsigned_int" -> write_unsigned_int(value)

\* the read operation that matches a write operation
ReadOpOf(op) ==
    CASE op = "write_unsigned_varint" -> "read_unsigned_varint"
      [] op = "write_varint" -> "read_varint"
      [] op = "write_unsigned_varint64" -> "read_unsigned_varint64"
      [] op = "write_unsigned_int" -> "read_unsigned_int"

\* C10: fields written one after another to one empty sink are
\* self-delimiting: each write appends exactly its encoding, the matching
\* reads in the same order return the values, each advancing the position by
\* the length of the matching write, and the last read exhausts the source.
C10_SelfDelimiting ==
    /\ \A i \in 1..Len(log) :
           /\ log[i].start = (IF i = 1 THEN 0 ELSE log[i - 1].start + log[i - 1].len)
           /\ SubSeq(buf, log[i].start + 1, log[i].start + log[i].len)
                  = EncodingOf(log[i].op, log[i].value)
    /\ Len(buf) = (IF log = <<>> THEN 0 ELSE log[Len(log)].start + log[Len(log)].len)
    /\ rd = 0 => pos = 0
    /\ rd >= 1 =>
           /\ res.op = ReadOpOf(LastField.op)
           /\ res.tag = "Ok"
           /\ res.val = LastField.value
           /\ pos = LastField.start + LastField.len
    /\ rd = Len(log) => pos = Len(buf)

C10_Witness ==
    /\ Len(log) = 4
    /\ rd = 4
    /\ {log[i].op : i \in 1..4} =
           {"write_unsigned_varint", "write_varint", "write_unsigned_varint64",
            "write_unsigned_int"}
    /\ log[1].op = "write_unsigned_int"
    /\ log[4].op = "write_unsigned_varint64"
    /\ res.tag = "Ok"
    /\ res.val = {14}
    /\ pos = Len(buf)

\* the zig-zag mapping stated on the sign: a non-negative n goes to 2n, a
\* negative n to -2n - 1, which is the complement of 2n
ZigZagOf(v, w) ==
    IF (w - 1) \notin v THEN Shl(v, 1, w) ELSE BitNot(Shl(v, 1, w), w)

\* its inverse stated on the parity: an even u goes to u / 2, an odd u to
\* -(u + 1) / 2, which is the complement of u / 2
UnZigZagOf(u, w) ==
    IF 0 \notin u THEN Shr(u, 1) ELSE BitNot(Shr(u, 1), w)

\* C11: read_varint64 on the bytes write_unsigned_varint64 produces for the
\* zig-zag value (v << 1) XOR (v >> 63) of an i64 v returns Ok(v); on the
\* encoding of any u64 u it returns Ok of u / 2 for an even u and of
\* -(u + 1) / 2 for an odd u.
C11_RoundTripSigned64 ==
    res.op = "read_varint64" =>
        /\ res.tag = "Ok"
        /\ pos = Len(buf)
        /\ LastField.op = "zigzag64" => res.val = LastField.value
        /\ LastField.op = "write_unsigned_varint64" =>
               res.val = UnZigZagOf(LastField.value, W64)

C11_Witness ==
    /\ res.op = "read_varint64"
    /\ LastField.op = "zigzag64"
    /\ LastField.value = {W64 - 1}
    /\ Len(buf) = MaxVarintBytes64
    /\ res.tag = "Ok"
    /\ res.val = {W64 - 1}

\* C12: the mapping of write_varint sends n >= 0 to 2n and n < 0 to -2n - 1
\* (0, -1, 1, -2, 2 to 0, 1, 2, 3, 4), and the mapping of read_varint undoes
\* it: decoding the encoding of an i32 gives the i32 back, and encoding the
\* decoding of a u32 gives the u32 back, so the mapping is one-to-one and onto.
C12_ZigZagBijection ==
    /\ (res.op = "zigzag_encode" /\ rd = 0) =>
           /\ res.val = ZigZagOf(log[1].value, W32)
           /\ \A n \in (0 - MaxSmall)..MaxSmall :
                  log[1].value = I32(n) =>
                      res.val = ToBits(IF n >= 0 THEN 2 * n ELSE (0 - 2 * n) - 1)
    /\ (res.op = "zigzag_decode" /\ rd = 0) =>
           res.val = UnZigZagOf(log[1].value, W32)
    /\ (res.op \in {"zigzag_encode", "zigzag_decode"} /\ rd = 1) =>
           res.val = log[1].value

C12_Witness ==
    /\ res.op = "zigzag_encode"
    /\ rd = 1
    /\ log[1].op = "zigzag_decode"
    /\ log[1].value = 0..(W32 - 1)
    /\ res.val = 0..(W32 - 1)

\* C13: write_varint emits exactly the bytes write_unsigned_varint emits for
\* the zig-zag encoding of its value; on any source read_varint consumes the
\* bytes read_unsigned_varint consumes, fails exactly when it fails and with
\* the same error, and otherwise returns the zig-zag decoding of its result.
C13_SignedIsUnsignedOfZigZag ==
    /\ log # <<>> =>
           /\ log[1].op = "write_varint"
           /\ buf = write_unsigned_varint(ZigZagOf(log[1].value, W32))
    /\ res.op = "read_varint" =>
           LET u == read_unsigned_varint(buf, 0) IN
           /\ pos = u.pos
           /\ res.tag = u.tag
           /\ res.tag \in {"Ok", "Io", "VarintTooLong"}
           /\ res.tag = "Ok" => res.val = UnZigZagOf(u.val, W32)
           /\ res.tag # "Ok" => res.val = {}

C13_Witness ==
    /\ res.op = "read_varint"
    /\ res.tag = "VarintTooLong"
    /\ log = <<>>
    /\ pos = MaxVarintBytes32

\* the 4 bytes of the slice at index
Window(index) == SubSeq(buf, index + 1, index + IntBytes)

\* the 32-bit pattern whose most significant byte is bytes[1]: bit j of
\* bytes[k] is bit 8 * (4 - k) + j of the pattern
BigEndianValue(bytes) ==
    UNION {{W8 * (IntBytes - k) + j : j \in ToBits(bytes[k])} : k \in 1..IntBytes}

\* byte number k, counted from the least significant one, of a 32-bit pattern
ByteOf(value, k) == ToNat({j \in 0..(W8 - 1) : W8 * k + j \in value})

Reverse(s) == [k \in 1..Len(s) |-> s[Len(s) + 1 - k]]

IndexedReads == {"read_unsigned_int_at", "read_int_be"}

IndexedWrites == {"write_unsigned_int_at", "write_unsigned_int_le_at", "write_int_be"}

SequentialWrites == {"write_unsigned_int", "write_unsigned_int_le"}

\* the read accessor that reads back what a write accessor wrote
ReadBackOf(op) ==
    IF op = "write_unsigned_int_at" THEN "read_unsigned_int_at" ELSE "read_int_be"

\* C14: a value written with write_unsigned_int_at at an offset in range is
\* what read_unsigned_int_at returns at that offset, and a value written with
\* write_int_be is what read_int_be returns, also when other values have been
\* written at other 4-byte windows of the slice before or after it.
C14_RoundTripAtOffset ==
    \A i \in 1..Len(log) :
        (/\ log[i].op \in {"write_unsigned_int_at", "write_int_be"}
         /\ res.op = ReadBackOf(log[i].op)
         /\ res.at = log[i].start) =>
            /\ res.tag = "Ok"
            /\ res.val = log[i].value

C14_Witness ==
    /\ Len(log) = 2
    /\ log[1].op = "write_int_be"
    /\ log[1].start = 0
    /\ log[1].value = I32(-2147483647 - 1)
    /\ log[2].op = "write_int_be"
    /\ log[2].start = IntBytes
    /\ res.op = "read_int_be"
    /\ res.at = 0
    /\ res.tag = "Ok"
    /\ res.val = {W32 - 1}

\* C15: an indexed read or write accessor called with offset + 4 beyond the
\* length of the slice returns a failure to its caller, it does not abort, and
\* it leaves every byte of the slice as it was.
C15_OutOfRangeIsReturned ==
    [][(/\ res' # res
        /\ res'.op \in IndexedReads \cup IndexedWrites
        /\ res'.at + IntBytes > Len(buf)) =>
           /\ res'.tag \notin {"Ok", "panic"}
           /\ buf' = buf]_vars

\* C16: read_unsigned_int on a source with at least 4 bytes left consumes
\* exactly 4 and returns their big-endian value; with fewer than 4 left it
\* returns a short-read failure to its caller: it neither aborts nor returns a
\* value.
C16_SequentialRead ==
    [][(/\ <<pos, res>>' # <<pos, res>>
        /\ res'.op = "read_unsigned_int") =>
           IF pos + IntBytes <= Len(buf)
           THEN /\ res'.tag = "Ok"
                /\ pos' = pos + IntBytes
                /\ res'.val = BigEndianValue(Window(pos))
           ELSE /\ res'.tag \notin {"Ok", "panic"}
                /\ res'.val = {}]_vars

\* C17: a fixed-width write, to a stream or to a slice, either leaves all 4
\* bytes of the value in place or fails and leaves every byte as it was; a
\* sink with room for only 1, 2 or 3 more bytes holds no new byte after the
\* failed write.
C17_NoPartialWrite ==
    [][(/\ res' # res
        /\ res'.op \in IndexedWrites \cup SequentialWrites) =>
           \/ /\ res'.tag = "Ok"
              /\ SubSeq(buf', res'.at + 1, res'.at + IntBytes)
                     \in {to_be_bytes(res'.val), to_le_bytes(res'.val)}
           \/ /\ res'.tag # "Ok"
              /\ buf' = buf]_vars

C19_SignedUnsignedAgree ==
    [][(/\ res'.op \in IndexedReads
        /\ res'.at + IntBytes <= Len(buf)) =>
           /\ res'.tag = "Ok"
           /\ res'.val = read_unsigned_int_at(buf, res'.at).val
           /\ res'.val = read_int_be(buf, res'.at).val
           /\ res'.val = BigEndianValue(Window(res'.at))
           /\ buf' = buf]_vars

C19_Witness ==
    /\ res.op = "read_int_be"
    /\ res.tag = "Ok"
    /\ res.at = 1
    /\ Window(res.at) = <<243, 242, 241, 1>>
    /\ res.val = BigEndianValue(<<243, 242, 241, 1>>)

\* C20: when the sink refuses a byte of write_unsigned_varint, write_varint or
\* write_unsigned_varint64, the call returns Err(VarintError::Io), it has
\* offered no byte after the refused one, and it returns Ok only when the
\* whole encoding is in the sink.
C20_SinkErrorPropagated ==
    res.op \in {"write_unsigned_varint", "write_varint", "write_unsigned_varint64"} =>
        LET bytes == EncodingOf(res.op, res.val)
            room == Len(buf) - res.at
        IN  /\ res.tag \in {"Ok", "Io"}
            /\ res.tag = "Ok" <=> Len(bytes) <= room
            /\ res.tag = "Ok" =>
                   /\ SubSeq(buf, res.at + 1, res.at + Len(bytes)) = bytes
                   /\ pos = res.at + Len(bytes)
                   /\ res.calls = Len(bytes)
            /\ res.tag = "Io" =>
                   /\ SubSeq(buf, res.at + 1, Len(buf)) = SubSeq(bytes, 1, room)
                   /\ pos = Len(buf)
                   /\ res.calls = room + 1

C20_Witness ==
    /\ res.op = "write_unsigned_varint64"
    /\ res.tag = "Io"
    /\ res.val = 0..(W64 - 1)
    /\ res.at = 2
    /\ Len(buf) = 6
    /\ res.calls = 5
    /\ SubSeq(buf, 3, 6) = <<255, 255, 255, 255>>

\* what a call, run alone from entry to return, leaves: the outcome of the
\* whole operation on the call's input
RunAlone(t) ==
    IF t.op \in {"read_unsigned_varint", "read_varint", "read_unsigned_varint64",
                 "read_unsigned_int"}
    THEN LET o == CASE t.op = "read_unsigned_varint" -> read_unsigned_varint(t.buf0, 0)
                    [] t.op = "read_varint" -> read_varint(t.buf0, 0)
                    [] t.op = "read_unsigned_varint64" -> read_unsigned_varint64(t.buf0, 0)
                    [] t.op = "read_unsigned_int" -> read_unsigned_int(t.buf0, 0)
         IN  [buf |-> t.buf0, pos |-> o.pos, out |-> [tag |-> o.tag, val |-> o.val]]
    ELSE [buf |-> t.buf0 \o EncodingOf(t.op, t.value), pos |-> 0,
          out |-> [tag |-> "Ok", val |-> {}]]

\* C21: two codec calls on sources or sinks of their own, their source reads
\* and sink writes interleaved in any order, each return what the call
\* returns when run alone and leave its source or sink and position as the
\* call run alone leaves them; a call that is still running has not touched
\* the input of the other.
C21_IndependentCalls ==
    \A k \in 1..2 :
        /\ tasks[k].out # NoOut =>
               /\ tasks[k].out = RunAlone(tasks[k]).out
               /\ tasks[k].buf = RunAlone(tasks[k]).buf
               /\ tasks[k].pos = RunAlone(tasks[k]).pos
        /\ tasks[k].out = NoOut =>
               /\ tasks[k].pos <= RunAlone(tasks[k]).pos
               /\ Len(tasks[k].buf) <= Len(RunAlone(tasks[k]).buf)

C21_Witness ==
    /\ tasks[1].op = "read_unsigned_varint64"
    /\ tasks[1].out = [tag |-> "Ok", val |-> {63}]
    /\ tasks[1].pos = 10
    /\ tasks[2].op = "write_unsigned_varint"
    /\ tasks[2].buf = <<7, 255, 255, 255, 255, 15>>
    /\ tasks[2].out.tag = "Ok"

\* C22: on every byte sequence, the outputs of write_unsigned_varint and
\* write_unsigned_varint64 among them, read_unsigned_varint and the 32-bit
\* reference loop both succeed with the same value or both fail, and so do
\* read_unsigned_varint64 and the 64-bit reference loop.
C22_AgreesWithReference ==
    res.op \in {"read_unsigned_varint", "read_unsigned_varint64"} =>
        /\ (res.tag = "Ok") <=> (res.expected.tag = "Ok")
        /\ res.tag = "Ok" => res.val = res.expected.val
        /\ pos = res.expected.pos
        /\ (log # <<>> /\ (log[1].op = "write_unsigned_varint"
                             \/ res.op = "read_unsigned_varint64")) =>
               /\ res.tag = "Ok"
               /\ res.expected.val = log[1].value

C22_Witness ==
    /\ res.op = "read_unsigned_varint"
    /\ log = <<>>
    /\ buf = <<255, 255, 255, 255, 127>>
    /\ res.tag = "Ok"
    /\ res.expected = [tag |-> "Ok", val |-> 0..(W32 - 1), pos |-> 5]

----------------------------------------------------------------------------
(* The unrolled 32-bit encoder against the shift-and-mask loop *)

\* bits 7i..7i+6 of v as a number 0..127
GroupOf(v, i) == ToNat({b - 7 * i : b \in {c \in v : c >= 7 * i /\ c < 7 * i + 7}})

\* C23: for every u32 v the unrolled write_unsigned_varint(v) emits the bytes
\* of the loop "while remaining >= 0x80 emit (remaining & 0x7F) | 0x80 and
\* shift right by 7, then emit remaining", which is write_unsigned_varint64
\* of v widened to u64: every byte but the last has the continuation bit,
\* the last has it clear, and byte i carries bits 7i..7i+6 of v.
C23_UnrolledIsLoop ==
    (log # <<>> /\ log[1].op = "write_unsigned_varint") =>
        LET v == log[1].value
        IN  /\ buf = write_unsigned_varint64(v)
            /\ Len(buf) \in 1..MaxVarintBytes32
            /\ \A k \in 1..(Len(buf) - 1) : buf[k] >= 128
            /\ buf[Len(buf)] < 128
            /\ \A k \in 1..Len(buf) : buf[k] % 128 = GroupOf(v, k - 1)

C23_Witness ==
    /\ log # <<>>
    /\ log[1].op = "write_unsigned_varint"
    /\ log[1].value = I32(1048576)
    /\ buf = <<128, 128, 64>>
    /\ buf = write_unsigned_varint64(I32(1048576))

----------------------------------------------------------------------------
(* Frame of the indexed writes *)

\* the bytes a field of the log was written as
FieldBytes(f) ==
    IF f.op \in {"write_unsigned_int_le_at", "write_unsigned_int_le"}
    THEN to_le_bytes(f.value)
    ELSE to_be_bytes(f.value)

\* the field reads back from the slice: its bytes are in its window, and a
\* big-endian field is what read_unsigned_int_at and read_int_be return there
ReadsBack(buffer, f) ==
    /\ SubSeq(buffer, f.start + 1, f.start + IntBytes) = FieldBytes(f)
    /\ f.op \in {"write_unsigned_int_at", "write_int_be", "write_unsigned_int"} =>
           /\ read_unsigned_int_at(buffer, f.start) = Access("Ok", f.value, buffer)
           /\ read_int_be(buffer, f.start) = Access("Ok", f.value, buffer)

\* C24: a successful write_unsigned_int_at, write_unsigned_int_le_at or
\* write_int_be at an offset with offset + 4 <= length changes only the bytes
\* offset..offset+3 of the slice: the length, every byte below and above the
\* window and the cursor position are unchanged, and every field written
\* earlier at a non-overlapping window still reads back its value.
C24_WindowOnly ==
    [][(/\ res'.op \in IndexedWrites
        /\ res'.tag = "Ok"
        /\ Len(log') = Len(log) + 1) =>
           /\ in_range(buf, res'.at)
           /\ Len(buf') = Len(buf)
           /\ \A k \in 1..Len(buf) :
                  (k <= res'.at \/ k > res'.at + IntBytes) => buf'[k] = buf[k]
           /\ pos' = pos
           /\ \A i \in 1..Len(log) : ReadsBack(buf, log[i]) /\ ReadsBack(buf', log[i])
           /\ ReadsBack(buf', log'[Len(log')])]_vars

C24_Witness ==
    /\ Len(buf) = 2 * IntBytes
    /\ Len(log) = 2
    /\ log[1].op = "write_unsigned_int_le_at"
    /\ log[1].start = IntBytes
    /\ log[1].value = I32(67305985)
    /\ log[2].op = "write_unsigned_int_at"
    /\ log[2].start = 0
    /\ log[2].value = I32(-1)
    /\ res.op = "write_unsigned_int_at"
    /\ res.tag = "Ok"
    /\ buf = <<255, 255, 255, 255, 1, 2, 3, 4>>

----------------------------------------------------------------------------
(* A decode that failed is not resumed *)

\* call i ran out of source after at least one byte: it failed with Io and
\* bytes had arrived beyond the place where it started
RanOut(i) == log[i].tag = "Io" /\ log[i].avail > log[i].start

\* calls i..j of the log are one attempt after another at the same run:
\* call i ran out, the calls between failed too, and call j returned a value
Resumed(i, j) ==
    /\ i < j
    /\ RanOut(i)
    /\ \A k \in (i + 1)..(j - 1) : log[k].tag = "Io"
    /\ log[j].tag = "Ok"

\* the complete byte run calls i..j consumed between them
RunOf(i, j) == SubSeq(buf, log[i].start + 1, log[j].pos)

\* what the decoder of call j returns on the bytes that had arrived from
\* where call j started, taken alone
AloneOf(j) ==
    LET rest == SubSeq(buf, log[j].start + 1, log[j].avail)
    IN  IF log[j].op = "read_unsigned_varint"
        THEN read_unsigned_varint(rest, 0)
        ELSE read_unsigned_varint64(rest, 0)

\* the bytes a failed call consumed stay consumed and the next call starts
\* after them from an empty accumulator
NotRolledBack ==
    /\ \A i \in 1..Len(log) :
           RanOut(i) =>
               /\ log[i].pos = log[i].avail
               /\ \A k \in (log[i].start + 1)..log[i].pos : continuation(buf[k])
               /\ i < Len(log) => log[i + 1].start = log[i].pos
    /\ \A j \in 1..Len(log) :
           /\ log[j].tag = AloneOf(j).tag
           /\ log[j].val = AloneOf(j).val
           /\ log[j].pos = log[j].start + AloneOf(j).pos

\* C25 as stated: when read_unsigned_varint or read_unsigned_varint64 fails
\* because the source ran out after k >= 1 continuation bytes, those bytes
\* stay consumed and the accumulator is discarded, and a later call that
\* returns a value does not return the value the complete byte run encoded.
C25_NeverTheRunValue ==
    /\ NotRolledBack
    /\ \A i, j \in 1..Len(log) :
           Resumed(i, j) => log[j].val # ExactValue(RunOf(i, j))

\* C25, amended: the bytes stay consumed and the accumulator is discarded; the
\* later call returns the value of the remaining bytes alone, which is the
\* value of the complete run only when every payload bit of the run is zero
\* (the run 0x80 .. 0x80 0x00, a non-minimal encoding of 0).
C25_NotResumed ==
    /\ NotRolledBack
    /\ \A i, j \in 1..Len(log) :
           Resumed(i, j) =>
               /\ log[j].val = ExactValue(SubSeq(buf, log[j].start + 1, log[j].pos))
               /\ (log[j].val = ExactValue(RunOf(i, j))) <=>
                      (\A k \in (log[i].start + 1)..log[j].pos : buf[k] % 128 = 0)

C25_Witness ==
    /\ buf = <<129, 1>>
    /\ Len(log) = 2
    /\ log[1].op = "read_unsigned_varint"
    /\ log[1].tag = "Io"
    /\ log[1].start = 0
    /\ log[1].pos = 1
    /\ log[2].tag = "Ok"
    /\ log[2].start = 1
    /\ log[2].val = {0}
    /\ ExactValue(RunOf(1, 2)) = {0, 7}

----------------------------------------------------------------------------
(* Bytes consumed by the decoders *)

\* the most bytes the decoder op reads
LimitOf(op) ==
    IF op \in {"read_unsigned_varint", "read_varint"}
    THEN MaxVarintBytes32
    ELSE MaxVarintBytes64

----------------------------------------------------------------------------
(* The fallback return after the decoding loop *)

\* C27: VarintError::UnterminatedVarint is never returned: for every source
\* read_unsigned_varint, read_varint, read_unsigned_varint64 and read_varint64
\* return Ok, VarintError::Io or VarintError::VarintTooLong, the return after
\* the loop is not reached, and a source that ends before a terminating byte
\* is reported as Io.
C27_UnterminatedUnreachable ==
    res.op \in {"read_unsigned_varint", "read_varint",
                "read_unsigned_varint64", "read_varint64"} =>
        /\ res.tag \in {"Ok", "Io", "VarintTooLong"}
        /\ res.tag # "UnterminatedVarint"
        /\ (~Terminated(buf) /\ Len(buf) < LimitOf(res.op)) => res.tag = "Io"
        /\ (~Terminated(buf) /\ Len(buf) >= LimitOf(res.op)) => res.tag = "VarintTooLong"

C27_Witness ==
    /\ res.op = "read_varint"
    /\ buf = <<128, 255, 128, 255>>
    /\ res.tag = "Io"
    /\ pos = 4

----------------------------------------------------------------------------
(* The i64-widened accessors ignore overflow *)

\* the i64 pattern lies in 0..=4294967295
InU32Range(value) == \A b \in value : b < W32

\* C28: for every i64 value utils::write_unsigned_int writes exactly the 4
\* big-endian bytes of value modulo 2^32, and utils::read_unsigned_int on
\* those bytes returns value modulo 2^32 as an i64 in 0..=4294967295, so the
\* round trip is the identity exactly for values in 0..=4294967295; the same
\* holds for write_unsigned_int_from_pos and read_unsigned_int_from_pos at
\* the same index.
C28_OverflowIgnored ==
    /\ \A i \in 1..Len(log) :
           /\ log[i].len = IntBytes
           /\ BigEndianValue(SubSeq(buf, log[i].start + 1, log[i].start + IntBytes))
                  = Trunc(log[i].value, W32)
    /\ (res.op \in {"utils::read_unsigned_int", "utils::read_unsigned_int_from_pos"}
            /\ res.tag = "Ok") =>
           /\ InU32Range(res.val)
           /\ \A i \in 1..Len(log) :
                  log[i].start = res.at =>
                      /\ res.val = Trunc(log[i].value, W32)
                      /\ (res.val = log[i].value) <=> InU32Range(log[i].value)

C28_Witness ==
    /\ Len(log) = 2
    /\ log[1].op = "utils::write_unsigned_int"
    /\ log[1].value = {W32} \cup I32(133444)
    /\ log[2].op = "utils::write_unsigned_int_from_pos"
    /\ log[2].value = 0..(W64 - 1)
    /\ log[2].start = IntBytes
    /\ res.op = "utils::read_unsigned_int"
    /\ res.at = 0
    /\ res.tag = "Ok"
    /\ res.val = I32(133444)
    /\ pos = IntBytes

----------------------------------------------------------------------------
(* The builder commits keys in order and rejects duplicates *)

\* the calls of the history that are new(name)
NewCalls == {i \in 1..Len(log) : log[i].op = "new"}

\* the new() call whose key the call at i works on
OwnerOf(i) == CHOOSE j \in NewCalls : j < i /\ \A k \in NewCalls : k < i => k <= j

\* the last value a setter gave the key of the new() call at j, or "None"
LastSet(j, field) ==
    LET sets == {i \in 1..Len(log) :
                    /\ log[i].op = field
                    /\ \E k \in NewCalls : k < i
                    /\ OwnerOf(i) = j}
    IN  IF sets = {} THEN "None"
        ELSE log[CHOOSE i \in sets : \A k \in sets : k <= i].value

\* the key the history defines with the new() call at j
KeyOf(j) ==
    [name |-> log[j].value,
     documentation |-> LastSet(j, "documentation"),
     default_value |-> LastSet(j, "default_value"),
     importance |-> LastSet(j, "importance")]

\* the name given to the new() call at j was given to an earlier new() call
Redefined(j) == \E k \in NewCalls : k < j /\ log[k].value = log[j].value

\* the last new() call before the call at i
Pending(i) == {j \in NewCalls : j < i /\ \A k \in NewCalls : k < i => k <= j}

\* C29: after any sequence of new(name) calls, each followed by setter calls,
\* and build(), the ConfigDef holds one key per name in the order of the
\* new() calls, each with the last values set for it; find_key(name) returns
\* that key, and None for a name never defined; a name passed to new() twice
\* makes the builder panic when the second key is committed, at the next
\* new() or at build(), and not before; a setter before any new() panics.
C29_BuilderCommits ==
    /\ (res.op \in {"build", "find_key"} /\ res.tag = "Ok") =>
           /\ Len(builder.config_keys) = Cardinality(NewCalls)
           /\ \A j \in NewCalls :
                  builder.config_keys[Cardinality({k \in NewCalls : k <= j})] = KeyOf(j)
           /\ \A m, n \in 1..Len(builder.config_keys) :
                  builder.config_keys[m].name = builder.config_keys[n].name => m = n
    /\ res.op = "find_key" =>
           /\ \A j \in NewCalls : log[j].value = res.name => res.found = << KeyOf(j) >>
           /\ (\A j \in NewCalls : log[j].value # res.name) => res.found = <<>>
    /\ res.op \in {"new", "build"} =>
           (res.tag = "panic" <=> \E j \in Pending(Len(log)) : Redefined(j))
    /\ res.op \in {"default_value", "importance", "documentation"} =>
           (res.tag = "panic" <=> Pending(Len(log)) = {})

C29_Witness ==
    /\ Len(log) = 5
    /\ log[1] = [op |-> "new", value |-> "b"]
    /\ log[2] = [op |-> "default_value", value |-> "5"]
    /\ log[3] = [op |-> "default_value", value |-> "hello"]
    /\ log[4] = [op |-> "new", value |-> "a"]
    /\ log[5].op = "build"
    /\ res.op = "find_key"
    /\ res.name = "b"
    /\ res.found = << [name |-> "b", documentation |-> "None",
                       default_value |-> "hello", importance |-> "None"] >>
    /\ builder.config_keys[2].name = "a"

\* a name given to new() twice: the second new() returns, the panic comes
\* when its key is committed
C29_WitnessTwice ==
    /\ Len(log) = 3
    /\ log[1] = [op |-> "new", value |-> "a"]
    /\ log[2] = [op |-> "new", value |-> "b"]
    /\ log[3] = [op |-> "new", value |-> "b"]
    /\ res.tag = "Ok"

----------------------------------------------------------------------------
(* The unit converters *)

\* the decimal text of h * per_unit for the i32 h of sign and magnitude
ProductText(h, per_unit) ==
    LET digits == DecMul(h.mag, per_unit)
        chars  == [k \in 1..Len(digits) |-> DecimalChars[digits[k] + 1]]
    IN  IF h.neg THEN <<"-">> \o chars ELSE chars

\* C30: for every input string hours_to_milliseconds and
\* minutes_to_milliseconds return without aborting; when the trimmed input
\* parses as an i32 h the result is the decimal text of h * 3600000 (hours)
\* or h * 60000 (minutes); when it is empty or does not parse the result is
\* "0".
C30_UnitConverters ==
    /\ res.op = "hours_to_milliseconds" =>
           /\ res.tag = "Ok"
           /\ res.out = IF parse_i32(trim(text)).ok
                        THEN ProductText(parse_i32(trim(text)), 3600000)
                        ELSE <<"0">>
    /\ res.op = "minutes_to_milliseconds" =>
           /\ res.tag = "Ok"
           /\ res.out = IF parse_i32(trim(text)).ok
                        THEN ProductText(parse_i32(trim(text)), 60000)
                        ELSE <<"0">>

====
